---- MODULE Spec2Model ----
(***************************************************************************)
(* A model of pgtenant: the SQL rewriter (transform.go) that injects       *)
(* tenant-ID predicates into a parse tree, and the driver connection       *)
(* (conn.go) that whitelists, caches and forwards rewritten queries.       *)
(*                                                                         *)
(* Text is modelled at the level the code distinguishes: a query string    *)
(* is a sequence of characters of which only the class matters to          *)
(* normalize (newline, other white space, anything else), so a maximal run *)
(* of non-space characters is one element; emitted SQL is the sequence of  *)
(* its lexical tokens.  Parse trees are records named after the            *)
(* pg_query_go node structs, a nil pointer being Nil (nodes) or NULLPTR    *)
(* (strings).                                                              *)
(***************************************************************************)
EXTENDS Integers, Sequences, FiniteSets, TLC

VARIABLES
    tree,          \* rewriter run: the pg_query.ParsetreeList handed to doTransform
    rw,            \* rewriter run: ready, or done with doTransform's outcome
    whitelist,     \* Driver.Whitelist
    dynamicCache,  \* Driver.dynamicCache.cache
    tested,        \* outcome of TransformTester on Driver.Whitelist
    call,          \* the latest driver call and what it returned
    sent           \* what that call forwarded to the underlying connection

vars == <<tree, rw, whitelist, dynamicCache, tested, call, sent>>

----------------------------------------------------------------------------
(* Bounds of the model *)

\* largest positional parameter $K occurring in an input statement
MaxParam == 2

\* most caller arguments handed to QueryContext / ExecContext
MaxArgs == 1

\* longest query text normalize is run on by itself
MaxLen == 4

\* goroutines that call queryCache.lookup and queryCache.add at once
MaxGoroutines == 3

----------------------------------------------------------------------------
(* Parse-tree nodes (github.com/lfittl/pg_query_go/nodes) *)

NULLPTR == "<nil>"
Nil == [type |-> "Nil"]

ParamRef(n) == [type |-> "ParamRef", Number |-> n]
String(s) == [type |-> "String", Str |-> s]
Integer(i) == [type |-> "Integer", Ival |-> i]
A_Star == [type |-> "A_Star"]
A_Const(v) == [type |-> "A_Const", Val |-> v]
ColumnRef(fields) == [type |-> "ColumnRef", Fields |-> fields]
Col(name) == ColumnRef(<<String(name)>>)
QCol(tbl, name) == ColumnRef(<<String(tbl), String(name)>>)
A_Expr(kind, op, l, r) ==
    [type |-> "A_Expr", Kind |-> kind, Name |-> <<String(op)>>, Lexpr |-> l, Rexpr |-> r]
BoolExpr(op, args) == [type |-> "BoolExpr", Boolop |-> op, Args |-> args]
SubLink(kind, test, sub) ==
    [type |-> "SubLink", SubLinkType |-> kind, Testexpr |-> test, Subselect |-> sub]
TypeCast(arg, name) ==
    [type |-> "TypeCast", Arg |-> arg,
     TypeName |-> [type |-> "TypeName", Names |-> <<String(name)>>, ArrayBounds |-> <<>>]]
CaseExpr(arg, args, defresult) ==
    [type |-> "CaseExpr", Arg |-> arg, Args |-> args, Defresult |-> defresult]
CaseWhen(expr, result) == [type |-> "CaseWhen", Expr |-> expr, Result |-> result]
SQLValueFunction(op) == [type |-> "SQLValueFunction", Op |-> op]
FuncCall(name, args) ==
    [type |-> "FuncCall", Funcname |-> <<String(name)>>, Args |-> args, AggStar |-> FALSE]
ResTarget(name, val) == [type |-> "ResTarget", Name |-> name, Val |-> val]
RangeVar(rel, alias) == [type |-> "RangeVar", Relname |-> rel, Alias |-> alias]
JoinExpr(jt, l, r, quals) ==
    [type |-> "JoinExpr", Jointype |-> jt, Larg |-> l, Rarg |-> r, Quals |-> quals]
RangeSubselect(sub, alias) == [type |-> "RangeSubselect", Subquery |-> sub, Alias |-> alias]
CommonTableExpr(name, q) == [type |-> "CommonTableExpr", Ctename |-> name, Ctequery |-> q]
WithClause(ctes) == [type |-> "WithClause", Recursive |-> FALSE, Ctes |-> ctes]
InferClause(elems) == [type |-> "InferClause", IndexElems |-> elems]
IndexElem(name) == [type |-> "IndexElem", Name |-> name]
OnConflictClause(action, infer, targets, where) ==
    [type |-> "OnConflictClause", Action |-> action, Infer |-> infer,
     TargetList |-> targets, WhereClause |-> where]
SortBy(node, dir) == [type |-> "SortBy", Node |-> node, SortbyDir |-> dir]

SelectStmt(targets, from, where) ==
    [type |-> "SelectStmt", WithClause |-> Nil, DistinctClause |-> <<>>,
     TargetList |-> targets, FromClause |-> from, WhereClause |-> where,
     GroupClause |-> <<>>, HavingClause |-> Nil, SortClause |-> <<>>,
     LimitCount |-> Nil, LimitOffset |-> Nil, ValuesLists |-> <<>>,
     Op |-> "SETOP_NONE", Larg |-> Nil, Rarg |-> Nil]
ValuesStmt(row) == [SelectStmt(<<>>, <<>>, Nil) EXCEPT !.ValuesLists = <<row>>]
InsertStmt(rel, cols, sel) ==
    [type |-> "InsertStmt", WithClause |-> Nil, Relation |-> rel, Cols |-> cols,
     SelectStmt |-> sel, OnConflictClause |-> Nil, ReturningList |-> <<>>]
UpdateStmt(rel, targets, from, where, returning) ==
    [type |-> "UpdateStmt", WithClause |-> Nil, Relation |-> rel, TargetList |-> targets,
     FromClause |-> from, WhereClause |-> where, ReturningList |-> returning]
DeleteStmt(rel, using, where) ==
    [type |-> "DeleteStmt", WithClause |-> Nil, Relation |-> rel, UsingClause |-> using,
     WhereClause |-> where, ReturningList |-> <<>>]
\* a statement kind the rewriter has no case for (CREATE TABLE, ...)
OtherStmt == [type |-> "CreateStmt"]
RawStmt(stmt) == [type |-> "RawStmt", Stmt |-> stmt]
ParsetreeList(stmts) == [type |-> "ParsetreeList", Statements |-> stmts]
With(ctes, stmt) == [stmt EXCEPT !.WithClause = WithClause(ctes)]

----------------------------------------------------------------------------
(* Sequence helpers *)

Max(a, b) == IF a > b THEN a ELSE b
Range(f) == {f[i] : i \in DOMAIN f}

RECURSIVE Flatten(_)
Flatten(ss) == IF ss = <<>> THEN <<>> ELSE Head(ss) \o Flatten(Tail(ss))

----------------------------------------------------------------------------
(* Parameter scanner *)

\* The node-valued fields of a node, in declaration order, list fields
\* flattened: what reflection reaches from a struct value.
Children(n) ==
    CASE n.type = "ParsetreeList" -> n.Statements
      [] n.type = "RawStmt" -> <<n.Stmt>>
      [] n.type = "SelectStmt" ->
            n.DistinctClause \o n.TargetList \o n.FromClause \o <<n.WhereClause>>
            \o n.GroupClause \o <<n.HavingClause>> \o Flatten(n.ValuesLists)
            \o n.SortClause \o <<n.LimitOffset, n.LimitCount, n.WithClause, n.Larg, n.Rarg>>
      [] n.type = "InsertStmt" ->
            <<n.Relation>> \o n.Cols \o <<n.SelectStmt, n.OnConflictClause>>
            \o n.ReturningList \o <<n.WithClause>>
      [] n.type = "UpdateStmt" ->
            <<n.Relation>> \o n.TargetList \o <<n.WhereClause>> \o n.FromClause
            \o n.ReturningList \o <<n.WithClause>>
      [] n.type = "DeleteStmt" ->
            <<n.Relation>> \o n.UsingClause \o <<n.WhereClause>> \o n.ReturningList
            \o <<n.WithClause>>
      [] n.type = "WithClause" -> n.Ctes
      [] n.type = "CommonTableExpr" -> <<n.Ctequery>>
      [] n.type = "OnConflictClause" ->
            <<n.Infer>> \o n.TargetList \o <<n.WhereClause>>
      [] n.type = "InferClause" -> n.IndexElems
      [] n.type = "JoinExpr" -> <<n.Larg, n.Rarg, n.Quals>>
      [] n.type = "TypeCast" -> <<n.Arg>>
      [] n.type = "CaseExpr" -> <<n.Arg>> \o n.Args \o <<n.Defresult>>
      [] n.type = "CaseWhen" -> <<n.Expr, n.Result>>
      [] n.type = "RangeSubselect" -> <<n.Subquery>>
      [] n.type = "ResTarget" -> <<n.Val>>
      [] n.type = "ColumnRef" -> n.Fields
      [] n.type = "A_Const" -> <<n.Val>>
      [] n.type = "A_Expr" -> n.Name \o <<n.Lexpr, n.Rexpr>>
      [] n.type = "BoolExpr" -> n.Args
      [] n.type = "SubLink" -> <<n.Testexpr, n.Subselect>>
      [] n.type = "FuncCall" -> n.Funcname \o n.Args
      [] n.type = "SortBy" -> <<n.Node>>
      [] OTHER -> <<>>

\* a scanner that looks at the item itself and does not descend into it
findMaxParam_NoDescent(item) == IF item.type = "ParamRef" THEN item.Number ELSE 0

RECURSIVE findMaxParam(_)
RECURSIVE findMaxParamSeq(_, _, _)
\* the loop "if i == 0 || subresult > result { result = subresult }"
findMaxParamSeq(items, i, result) ==
    IF i > Len(items) THEN result
    ELSE LET subresult == findMaxParam(items[i])
         IN  findMaxParamSeq(items, i + 1,
                             IF i = 1 \/ subresult > result THEN subresult ELSE result)

findMaxParam(item) ==
    IF item.type = "ParamRef" THEN item.Number
    ELSE findMaxParamSeq(Children(item), 1, 0)

----------------------------------------------------------------------------
(* Emitter primitives and the environment *)

\* Driver.TenantIDCol
TenantIDCol == "tenant_id"

\* fmt.Fprintf(w, "$%d", n)
ParamTok(n) == "$" \o ToString(n)

safestr(str) ==
    CASE str = "position" -> "\"position\""
      [] str = "timestamp" -> "\"timestamp\""
      [] str = "type" -> "\"type\""
      [] OTHER -> str

\* The identifiers used as table, alias and CTE names, in the lexicographic
\* order sort.StringSlice puts them in.
SortedNames == <<"a", "b", "bar", "c", "d", "foo", "s", "t", "u">>
Names == Range(SortedNames)
Rank(name) == CHOOSE i \in DOMAIN SortedNames : SortedNames[i] = name

RECURSIVE SortNames(_)
\* tables.Sort()
SortNames(set) ==
    IF set = {} THEN <<>>
    ELSE LET least == CHOOSE x \in set : \A y \in set : Rank(x) <= Rank(y)
         IN  <<least>> \o SortNames(set \ {least})

\* type status
noStatus == "noStatus"
needsTenantID == "needsTenantID"
hasTenantID == "hasTenantID"
isCTE == "isCTE"
isLeftJoinTable == "isLeftJoinTable"

\* newEnv(): an empty map
newEnv == [x \in {} |-> noStatus]
\* env[k], the zero value for a missing key
Get(env, k) == IF k \in DOMAIN env THEN env[k] ELSE noStatus
\* env[k] = v
Put(env, k, v) == [x \in DOMAIN env \cup {k} |-> IF x = k THEN v ELSE env[x]]

(***************************************************************************)
(* The state one rewrite threads through its recursion: the transformer    *)
(* (tenantIDNum, isTransformed), the writer w, the environment env of the  *)
(* scope being emitted, the error err returned so far ("nil" for none,     *)
(* "panic" for a nil dereference), and the last call's return values       *)
(* (atomic, cteNames).  order is the order in which this run's map         *)
(* iterations yield keys (Go leaves it unspecified).                       *)
(* History, never read by the rewriter: envid/nenv identify the map that   *)
(* env is (the k-th made by newEnv), regs logs each range variable the     *)
(* RangeVar case visits (fresh: its name had no status; relTag: the status *)
(* its table name had; tag: the status its name has afterwards), preds     *)
(* each tenant predicate emitted, wheres each WHERE clause emitted with    *)
(* the environment before and after, forked whether the iteration order    *)
(* ever decided an outcome.                                                *)
(***************************************************************************)
NoErr == "nil"
newTransformer(num, order) ==
    [tenantIDNum |-> num, isTransformed |-> FALSE, w |-> <<>>, env |-> newEnv,
     err |-> NoErr, atomic |-> FALSE, cteNames |-> <<>>, order |-> order,
     envid |-> 0, nenv |-> 0, regs |-> {}, preds |-> {}, wheres |-> {}, conds |-> {},
     forked |-> FALSE,
     sites |-> 0]

\* writing to w, and returning an error; like every step of the rewriter
\* they leave a state that already carries an error as it is
Emit(s, toks) == IF s.err # NoErr THEN s ELSE [s EXCEPT !.w = @ \o toks]
EmitIf(cond, s, toks) == IF cond THEN Emit(s, toks) ELSE s
Fail(s) == IF s.err # NoErr THEN s ELSE [s EXCEPT !.err = "error"]
Panic(s) == IF s.err # NoErr THEN s ELSE [s EXCEPT !.err = "panic"]
Failed(s) == s.err # NoErr
\* call with a fresh environment / come back to the caller's
Enter(s, env) == [s EXCEPT !.env = env, !.envid = s.nenv + 1, !.nenv = s.nenv + 1]
Leave(sub, s) == [sub EXCEPT !.env = s.env, !.envid = s.envid]

\* sites (history) counts the calls
addTenantID(s) ==
    IF s.err # NoErr THEN s
    ELSE [s EXCEPT !.w = @ \o <<ParamTok(s.tenantIDNum)>>, !.isTransformed = TRUE,
                   !.sites = @ + 1]

----------------------------------------------------------------------------
(* The rewriter (transform.go).  Every operator takes the state s and      *)
(* returns the state after the Go function returns; a callee that finds    *)
(* s.err set does nothing, which is the caller's "if err != nil return".   *)

RECURSIVE Invoke(_, _, _)
RECURSIVE transformStmt(_, _)
RECURSIVE transformInsert(_, _)
RECURSIVE transformSelect(_, _, _)
RECURSIVE transformWhere(_, _, _)
RECURSIVE transformWhereHelper(_, _, _, _, _)
RECURSIVE transformUpdate(_, _)
RECURSIVE handleCTE(_, _)
RECURSIVE handleCTEItems(_, _, _, _)
RECURSIVE transformDelete(_, _)
RECURSIVE transformSelectCol(_, _)
RECURSIVE transformAtom(_, _)
RECURSIVE transformNode(_, _)
RECURSIVE transformNodeHelper(_, _)
RECURSIVE transformBoolExpr(_, _)
RECURSIVE transformBoolArgs(_, _, _, _)
RECURSIVE transformBoolSubexpr(_, _)
RECURSIVE transformSubLink(_, _)
RECURSIVE commaSeparated(_, _, _, _)
RECURSIVE insertCols(_, _, _)
RECURSIVE insertValues(_, _, _)
RECURSIVE conflictElems(_, _, _)
RECURSIVE wherePredicates(_, _, _, _, _, _)
RECURSIVE caseArgs(_, _, _)

\* the direction an ORDER BY item ends in
sortDir(s, dir) ==
    CASE dir = "SORTBY_ASC" -> Emit(s, <<"ASC">>)
      [] dir = "SORTBY_DESC" -> Emit(s, <<"DESC">>)
      [] OTHER -> s

\* commaSeparated's callback f
Apply(f, s, node) ==
    CASE f = "transformNode" -> Invoke("transformNode", s, <<node>>)
      [] f = "transformSelectCol" -> Invoke("transformSelectCol", s, <<node>>)
      [] f = "sortBy" ->
            IF node.type # "SortBy" THEN Fail(s)
            ELSE sortDir(Invoke("transformNode", s, <<node.Node>>), node.SortbyDir)

\* an optional list: the keyword kw, then the items through f
Clause(s, kw, nodelist, f) ==
    IF Len(nodelist) = 0 THEN s
    ELSE Invoke("commaSeparated", Emit(s, kw), <<nodelist, 1, f>>)
\* an optional node: the keyword kw, then the node
NodeClause(s, kw, node) ==
    IF node.type = "Nil" THEN s ELSE Invoke("transformNode", Emit(s, kw), <<node>>)

commaSeparated(s, nodelist, i, f) ==
    IF Failed(s) \/ i > Len(nodelist) THEN s
    ELSE Invoke("commaSeparated", Apply(f, IF i > 1 THEN Emit(s, <<",">>) ELSE s, nodelist[i]), <<nodelist, i + 1, f>>)

\* a transformTree that rewrites the first statement of however many
transformTree_First(s, t) ==
    IF Len(t.Statements) = 0 THEN Fail(s) ELSE Invoke("transformStmt", s, <<t.Statements[1]>>)

transformTree(s, t) ==
    IF Len(t.Statements) # 1 THEN Fail(s) ELSE Invoke("transformStmt", s, <<t.Statements[1]>>)

transformStmt(s, stmt) ==
    IF stmt.type = "RawStmt" THEN Invoke("transformStmt", s, <<stmt.Stmt>>)
    ELSE LET s0 == Enter([s EXCEPT !.w = <<>>], newEnv)
         IN  CASE stmt.type = "InsertStmt" -> Invoke("transformInsert", s0, <<stmt>>)
               [] stmt.type = "SelectStmt" -> Invoke("transformSelect", s0, <<stmt, FALSE>>)
               [] stmt.type = "UpdateStmt" -> Invoke("transformUpdate", s0, <<stmt>>)
               [] stmt.type = "DeleteStmt" -> Invoke("transformDelete", s0, <<stmt>>)
               [] OTHER -> Fail([s EXCEPT !.w = <<>>])

\* the loop over stmt.Cols.Items
insertCols(s, cols, i) ==
    IF Failed(s) \/ i > Len(cols) THEN s
    ELSE IF cols[i].type # "ResTarget" THEN Fail(s)
    ELSE IF cols[i].Name = NULLPTR THEN Panic(s)
    ELSE Invoke("insertCols", Emit(s, <<safestr(cols[i].Name), ",">>), <<cols, i + 1>>)

\* the loop over sel.ValuesLists[0]
insertValues(s, row, i) ==
    IF Failed(s) \/ i > Len(row) THEN s
    ELSE Invoke("insertValues", Emit(Invoke("transformNode", s, <<row[i]>>), <<",">>),
                <<row, i + 1>>)

transformIndexElem(s, indexElem) ==
    IF indexElem.Name = NULLPTR THEN Panic(s) ELSE Emit(s, <<safestr(indexElem.Name)>>)

\* the loop over the ON CONFLICT index elements
conflictElems(s, elems, i) ==
    IF Failed(s) \/ i > Len(elems) THEN s
    ELSE IF elems[i].type # "IndexElem" THEN Fail(s)
    ELSE Invoke("conflictElems", Emit(transformIndexElem(s, elems[i]), <<",">>),
                <<elems, i + 1>>)

\* INSERT INTO rel [AS alias], and the target's entry in env
insertTarget(s, rel) ==
    IF rel.Alias # NULLPTR
    THEN [Emit(s, <<"INSERT", "INTO", safestr(rel.Relname), "AS", safestr(rel.Alias)>>)
            EXCEPT !.env = Put(@, rel.Alias, needsTenantID)]
    ELSE [Emit(s, <<"INSERT", "INTO", safestr(rel.Relname)>>)
            EXCEPT !.env = Put(@, rel.Relname, needsTenantID)]

\* INSERT ... SELECT in an environment of the CTE names, or one VALUES row
\* with the tenant parameter appended
insertSource(s, sel) ==
    IF sel.type # "SelectStmt" THEN Fail(s)
    ELSE CASE Len(sel.ValuesLists) = 0 ->
                Leave(Invoke("transformSelect",
                             Enter(s, [n \in Range(s.cteNames) |-> isCTE]), <<sel, TRUE>>), s)
           [] Len(sel.ValuesLists) = 1 ->
                Emit(addTenantID(Invoke("insertValues", Emit(s, <<"VALUES", "(">>),
                                        <<sel.ValuesLists[1], 1>>)), <<")">>)
           [] OTHER -> Fail(s)

conflictTarget(s, infer) ==
    IF infer.type = "Nil" THEN s
    ELSE Emit(Invoke("conflictElems", Emit(s, <<"(">>), <<infer.IndexElems, 1>>),
              <<TenantIDCol, ")">>)
conflictWhere(s, where) ==
    IF where.type = "Nil" THEN s ELSE Invoke("transformWhere", s, <<where, TRUE>>)
conflictAction(s, oc) ==
    CASE oc.Action = "ONCONFLICT_NOTHING" -> Emit(s, <<"NOTHING">>)
      [] oc.Action = "ONCONFLICT_UPDATE" ->
           conflictWhere(Invoke("commaSeparated", Emit(s, <<"UPDATE", "SET">>),
                                <<oc.TargetList, 1, "transformNode">>), oc.WhereClause)
      [] OTHER -> s
\* the ON CONFLICT clause
onConflictClause(s, oc) ==
    IF oc.type = "Nil" THEN s
    ELSE IF oc.Action = "ONCONFLICT_NONE" THEN s
    ELSE conflictAction(Emit(conflictTarget(Emit(s, <<"ON", "CONFLICT">>), oc.Infer),
                             <<"DO">>), oc)

transformInsert(s, stmt) ==
    LET s1 == Invoke("handleCTE", s, <<stmt.WithClause>>)
        s2 == insertTarget(s1, stmt.Relation)
        s3 == Invoke("insertCols", Emit(s2, <<"(">>), <<stmt.Cols, 1>>)
        s4 == insertSource(Emit(s3, <<TenantIDCol, ")">>), stmt.SelectStmt)
        s5 == onConflictClause(s4, stmt.OnConflictClause)
    IN  Clause(s5, <<"RETURNING">>, stmt.ReturningList, "transformNode")

\* whether the target list is the single item "*"
IsStar(targetItems) ==
    /\ Len(targetItems) = 1
    /\ targetItems[1].type = "ResTarget"
    /\ targetItems[1].Val.type = "ColumnRef"
    /\ Len(targetItems[1].Val.Fields) = 1
    /\ targetItems[1].Val.Fields[1].type = "A_Star"

\* the tenant parameter that ends the target list of INSERT ... SELECT
insertTenantCol(s, insertStmt, targetItems) ==
    IF ~insertStmt THEN s ELSE addTenantID(EmitIf(Len(targetItems) > 0, s, <<",">>))

\* the target list of a SELECT
selectTargets(s, stmt, insertStmt) ==
    IF Len(stmt.DistinctClause) > 0 THEN Fail(s)
    ELSE IF Len(stmt.TargetList) = 1 /\ stmt.TargetList[1].type # "ResTarget" THEN Fail(s)
    ELSE IF IsStar(stmt.TargetList)
    THEN IF insertStmt THEN Fail(Emit(s, <<"*">>)) ELSE Emit(s, <<"*">>)
    ELSE insertTenantCol(Invoke("commaSeparated", s,
                                <<stmt.TargetList, 1, "transformSelectCol">>),
                         insertStmt, stmt.TargetList)

transformSelect(s, stmt, insertStmt) ==
    LET s1 == Emit(Invoke("handleCTE", s, <<stmt.WithClause>>), <<"SELECT">>)
        s2 == selectTargets(s1, stmt, insertStmt)
        s3 == Clause(s2, <<"FROM">>, stmt.FromClause, "transformNode")
        s4 == Invoke("transformWhere", s3, <<stmt.WhereClause, FALSE>>)
        s5 == Clause(s4, <<"GROUP", "BY">>, stmt.GroupClause, "transformNode")
        s6 == NodeClause(s5, <<"HAVING">>, stmt.HavingClause)
        s7 == Clause(s6, <<"ORDER", "BY">>, stmt.SortClause, "sortBy")
    IN  NodeClause(s7, <<"LIMIT">>, stmt.LimitCount)

\* the key the loop "for tbl, status := range env" reaches first among
\* those tagged isLeftJoinTable
FirstLeftJoinTable(env, order) ==
    LET cands == {k \in DOMAIN env : env[k] = isLeftJoinTable}
    IN  IF order \in cands THEN order
        ELSE CHOOSE k \in cands : \A j \in cands : Rank(k) <= Rank(j)

\* a WHERE clause was emitted from state s to state r: the scope, its
\* environment before and after, and the text of the clause (history)
LogWhere(r, s, onConflict) ==
    [r EXCEPT !.wheres = @ \cup {[env |-> s.envid, before |-> s.env, after |-> r.env,
                                  onConflict |-> onConflict,
                                  text |-> SubSeq(r.w, Len(s.w) + 1, Len(r.w))]}]

transformWhere(s, where, onConflict) ==
    LET cands == {k \in DOMAIN s.env : s.env[k] = isLeftJoinTable}
        s1 == IF cands = {} THEN s
              ELSE [s EXCEPT !.env = Put(@, FirstLeftJoinTable(s.env, s.order), needsTenantID),
                             !.forked = @ \/ Cardinality(cands) > 1]
        doWhere == where.type # "Nil" \/ \E k \in DOMAIN s1.env : s1.env[k] = needsTenantID
    IN  IF ~doWhere THEN s1
        ELSE LogWhere(Invoke("transformWhereHelper", Emit(s1, <<"WHERE">>),
                             <<where, onConflict, SortNames(DOMAIN s1.env), "WHERE">>),
                      s, onConflict)

\* the loop over tables that emits the predicates; site (history) is the
\* clause being emitted, "WHERE" or "ON"
wherePredicates(s, onConflict, tables, i, first, site) ==
    IF i > Len(tables) THEN s
    ELSE LET table == tables[i]
         IN  IF Get(s.env, table) # needsTenantID
             THEN Invoke("wherePredicates", s, <<onConflict, tables, i + 1, first, site>>)
             ELSE LET s1 == IF first THEN s ELSE Emit(s, <<"AND">>)
                      s2 == IF Len(tables) > 1 \/ onConflict
                            THEN Emit(s1, <<table, ".">>) ELSE s1
                      s3 == addTenantID(Emit(s2, <<TenantIDCol, "=">>))
                      s4 == [s3 EXCEPT !.env = Put(@, table, hasTenantID),
                                       !.preds = @ \cup {[env |-> s.envid, name |-> table,
                                                          site |-> site]}]
                  IN  Invoke("wherePredicates", s4, <<onConflict, tables, i + 1, FALSE, site>>)

\* history: the condition a call of transformWhereHelper wrote from state s
\* to state r, with the names whose predicates it holds
LogCond(r, s, where, qualified, site) ==
    IF Failed(r) THEN r
    ELSE [r EXCEPT !.conds = @ \cup
            {[site |-> site, where |-> where, qualified |-> qualified,
              text |-> SubSeq(r.w, Len(s.w) + 1, Len(r.w)),
              added |-> {k \in DOMAIN s.env : s.env[k] = needsTenantID /\ r.env[k] = hasTenantID}]}]

\* a variant that writes an OR or NOT condition without the parentheses
transformWhereHelper_Bare(s, where, onConflict, tables, site) ==
    LET addTenant == \E i \in DOMAIN tables : Get(s.env, tables[i]) = needsTenantID
    IN  IF ~addTenant THEN Invoke("transformNode", s, <<where>>)
        ELSE LET s1 == IF where.type = "Nil" THEN s
                       ELSE LET e == IF where.type = "BoolExpr" /\ where.Boolop # "AND_EXPR"
                                     THEN Invoke("transformBoolExpr", s, <<where>>)
                                     ELSE Invoke("transformNode", s, <<where>>)
                            IN  IF Failed(e) THEN e ELSE Emit(e, <<"AND">>)
             IN  IF Failed(s1) THEN s1
                 ELSE LogCond(Invoke("wherePredicates", s1, <<onConflict, tables, 1, TRUE, site>>),
                              s, where, Len(tables) > 1 \/ onConflict, site)

transformWhereHelper(s, where, onConflict, tables, site) ==
    LET addTenant == \E i \in DOMAIN tables : Get(s.env, tables[i]) = needsTenantID
    IN  IF ~addTenant THEN Invoke("transformNode", s, <<where>>)
        ELSE LET s1 == IF where.type = "Nil" THEN s
                       ELSE LET e == IF where.type = "BoolExpr" /\ where.Boolop # "AND_EXPR"
                                     THEN LET b == Invoke("transformBoolExpr", Emit(s, <<"(">>), <<where>>)
                                          IN  IF Failed(b) THEN b ELSE Emit(b, <<")">>)
                                     ELSE Invoke("transformNode", s, <<where>>)
                            IN  IF Failed(e) THEN e ELSE Emit(e, <<"AND">>)
             IN  IF Failed(s1) THEN s1
                 ELSE LogCond(Invoke("wherePredicates", s1, <<onConflict, tables, 1, TRUE, site>>),
                              s, where, Len(tables) > 1 \/ onConflict, site)

RECURSIVE extractTablesAux(_)
extractTablesAux(n) ==
    CASE n.type = "RangeVar" -> IF n.Alias # NULLPTR THEN {n.Alias} ELSE {n.Relname}
      [] n.type = "JoinExpr" -> extractTablesAux(n.Larg) \cup extractTablesAux(n.Rarg)
      [] n.type = "RangeSubselect" ->
            IF n.Alias # NULLPTR /\ n.Alias # "" THEN {n.Alias} ELSE {}
      [] OTHER -> {}

extractTables(from) == UNION {extractTablesAux(from[i]) : i \in DOMAIN from}

\* the predicate transformUpdate writes itself names no table (history)
NoTable == "<none>"

\* the WHERE an UPDATE without one gets, after which transformUpdate
\* returns; else the WHERE and the RETURNING list
updateWhere(s, stmt) ==
    IF stmt.WhereClause.type = "Nil"
    THEN LogWhere([addTenantID(Emit(s, <<"WHERE", TenantIDCol, "=">>))
                     EXCEPT !.preds = @ \cup {[env |-> s.envid, name |-> NoTable,
                                                site |-> "WHERE"]}],
                  s, FALSE)
    ELSE Clause(Invoke("transformWhere", s, <<stmt.WhereClause, FALSE>>),
                <<"RETURNING">>, stmt.ReturningList, "transformNode")

transformUpdate(s, stmt) ==
    LET s1 == Invoke("transformNode", Emit(Invoke("handleCTE", s, <<stmt.WithClause>>),
                                           <<"UPDATE">>), <<stmt.Relation>>)
        s2 == Invoke("commaSeparated", Emit(s1, <<"SET">>),
                     <<stmt.TargetList, 1, "transformNode">>)
        s3 == Clause(s2, <<"FROM">>, stmt.FromClause, "transformNode")
    IN  updateWhere(s3, stmt)

\* for tbl, state := range subEnv { if state == isCTE { env[tbl] = isCTE } }
PropagateCTE(env, subEnv) ==
    [k \in DOMAIN env \cup {x \in DOMAIN subEnv : subEnv[x] = isCTE} |->
        IF k \in DOMAIN subEnv /\ subEnv[k] = isCTE THEN isCTE ELSE env[k]]

\* the statement of a CTE, rewritten in an environment of its own
cteBody(s, substmt) ==
    CASE substmt.type = "SelectStmt" ->
           Invoke("transformSelect", Enter(s, newEnv), <<substmt, FALSE>>)
      [] substmt.type = "InsertStmt" ->
           IF substmt.SelectStmt.type = "Nil" THEN Fail(s)
           ELSE Invoke("transformInsert", Enter(s, newEnv), <<substmt>>)
      [] OTHER -> Fail(s)
\* back in the environment of s, which learns the CTE names of the body's
cteScope(s, substmt) ==
    LET sub == cteBody(s, substmt)
    IN  IF Failed(sub) THEN sub
        ELSE [Emit(sub, <<")">>) EXCEPT !.env = PropagateCTE(s.env, sub.env),
                                       !.envid = s.envid]
cteItem(s, cte) ==
    IF cte.type # "CommonTableExpr" THEN Fail(s)
    ELSE cteScope([Emit(s, <<safestr(cte.Ctename), "AS", "(">>)
                     EXCEPT !.env = Put(@, cte.Ctename, isCTE)], cte.Ctequery)

\* the loop over withClause.Ctes.Items; names is cteNames so far
handleCTEItems(s, items, i, names) ==
    IF Failed(s) THEN s
    ELSE IF i > Len(items) THEN [s EXCEPT !.cteNames = names]
    ELSE Invoke("handleCTEItems", cteItem(EmitIf(i > 1, s, <<",">>), items[i]),
                <<items, i + 1, Append(names, items[i].Ctename)>>)

handleCTE(s, withClause) ==
    IF Failed(s) THEN s
    ELSE IF withClause.type = "Nil" THEN [s EXCEPT !.cteNames = <<>>]
    ELSE Invoke("handleCTEItems", Emit(s, IF withClause.Recursive THEN <<"WITH", "RECURSIVE">> ELSE <<"WITH">>), <<withClause.Ctes, 1, <<>>>>)

transformDelete(s, stmt) ==
    LET s1 == Invoke("transformNode", Emit(s, <<"DELETE", "FROM">>), <<stmt.Relation>>)
        s2 == Clause(s1, <<"USING">>, stmt.UsingClause, "transformNode")
    IN  Invoke("transformWhere", s2, <<stmt.WhereClause, FALSE>>)

transformSelectCol(s, node) ==
    IF node.type # "ResTarget" THEN Fail(s)
    ELSE LET s1 == Invoke("transformNode", s, <<node.Val>>)
         IN  IF Failed(s1) \/ node.Name = NULLPTR THEN s1
             ELSE Emit(s1, <<"AS", safestr(node.Name)>>)

transformAtom(s, node) ==
    LET r == Invoke("transformNodeHelper", [s EXCEPT !.w = <<>>], <<node>>)
    IN  IF Failed(r) THEN [r EXCEPT !.w = s.w]
        ELSE IF r.atomic THEN [r EXCEPT !.w = s.w \o r.w]
        ELSE [r EXCEPT !.w = s.w \o <<"(">> \o r.w \o <<")">>]

transformNode(s, node) == Invoke("transformNodeHelper", s, <<node>>)

\* strings.ToUpper on the type names the model uses
ToUpper(str) ==
    CASE str = "bool" -> "BOOL"
      [] str = "int8" -> "INT8"
      [] str = "text" -> "TEXT"
      [] str = "timestamptz" -> "TIMESTAMPTZ"
      [] OTHER -> str

transformIdent(s, items) ==
    IF Len(items) = 0 THEN Fail(s)
    ELSE IF items[1].type # "String" THEN Fail(s)
    ELSE IF Len(items) > 2 THEN Fail(s)
    ELSE IF Len(items) = 2 /\ items[1].Str # "pg_catalog" THEN Fail(s)
    ELSE IF Len(items) = 2 /\ items[2].type # "String" THEN Fail(s)
    ELSE LET str == IF Len(items) = 1 THEN items[1].Str ELSE ToUpper(items[2].Str)
         IN  Emit(s, <<CASE str = "BOOL" -> "BOOLEAN"
                         [] str = "INT8" -> "BIGINT"
                         [] str = "TIMESTAMPTZ" -> "TIMESTAMP WITH TIME ZONE"
                         [] OTHER -> str>>)

transformTypeName(s, typeName) ==
    LET s1 == transformIdent(s, typeName.Names)
        bounds == typeName.ArrayBounds
    IN  IF Failed(s1) \/ Len(bounds) = 0 THEN s1
        ELSE IF Len(bounds) > 1 THEN Fail(s1)
        ELSE IF bounds[1].type # "Integer" THEN Fail(s1)
        ELSE IF bounds[1].Ival # -1 THEN Fail(s1)
        ELSE Emit(s1, <<"[]">>)

\* the literal specialCaseBoolLiteral writes, or NULLPTR when it returns false
BoolLiteral(typecast) ==
    IF /\ typecast.Arg.type = "A_Const"
       /\ typecast.Arg.Val.type = "String"
       /\ typecast.TypeName.type # "Nil"
       /\ Len(typecast.TypeName.Names) = 2
       /\ typecast.TypeName.Names[1].type = "String"
       /\ typecast.TypeName.Names[1].Str = "pg_catalog"
       /\ typecast.TypeName.Names[2].type = "String"
       /\ typecast.TypeName.Names[2].Str = "bool"
    THEN CASE typecast.Arg.Val.Str = "t" -> "true"
           [] typecast.Arg.Val.Str = "f" -> "false"
           [] OTHER -> NULLPTR
    ELSE NULLPTR

\* escape, on the literals the model uses
escape(str) == IF str = "it's" THEN "it''s" ELSE str

transformConst(s, node) ==
    CASE node.Val.type = "Integer" -> Emit(s, <<ToString(node.Val.Ival)>>)
      [] node.Val.type = "Float" -> Emit(s, <<node.Val.Str>>)
      [] node.Val.type = "String" -> Emit(s, <<"'" \o escape(node.Val.Str) \o "'">>)
      [] node.Val.type = "Null" -> Emit(s, <<"NULL">>)
      [] OTHER -> s

transformNodeSafe(s, node) ==
    IF node.type = "String" THEN Emit(s, <<safestr(node.Str)>>) ELSE Invoke("transformNode", s, <<node>>)

maybeSetIsLeftJoinTable(env, table) ==
    IF \E k \in DOMAIN env : env[k] = isLeftJoinTable THEN env
    ELSE Put(env, table, isLeftJoinTable)

Atomic(s, b) == IF Failed(s) THEN [s EXCEPT !.atomic = FALSE] ELSE [s EXCEPT !.atomic = b]

\* the loop over node.Args.Items of a CaseExpr
caseArgs(s, args, i) ==
    IF Failed(s) \/ i > Len(args) THEN s
    ELSE Invoke("caseArgs", Invoke("transformNode", s, <<args[i]>>), <<args, i + 1>>)

transformNodeHelper(s, node) ==
    IF Failed(s) THEN s ELSE
    CASE node.type = "RangeSubselect" ->
           LET subquery == node.Subquery
               hasAlias == node.Alias # NULLPTR /\ node.Alias # ""
               s1 == IF hasAlias THEN Emit(s, <<"(">>) ELSE s
               sub == Leave(Invoke("transformSelect", Enter(s1, newEnv), <<subquery, FALSE>>), s1)
           IN  IF subquery.type # "SelectStmt" THEN Fail(s)
               ELSE IF Failed(sub) \/ ~hasAlias THEN Atomic(sub, FALSE)
               ELSE Atomic([Emit(sub, <<")", "AS", node.Alias>>)
                              EXCEPT !.env = Put(@, node.Alias, isCTE)], FALSE)
      [] node.type = "ParamRef" -> Atomic(Emit(s, <<ParamTok(node.Number)>>), TRUE)
      [] node.type = "TypeCast" ->
           IF BoolLiteral(node) # NULLPTR THEN Atomic(Emit(s, <<BoolLiteral(node)>>), TRUE)
           ELSE LET s1 == Invoke("transformAtom", s, <<node.Arg>>)
                IN  IF Failed(s1) THEN s1
                    ELSE Atomic(transformTypeName(Emit(s1, <<"::">>), node.TypeName), FALSE)
      [] node.type = "ResTarget" ->
           LET s1 == IF node.Name # NULLPTR THEN Emit(s, <<safestr(node.Name)>>) ELSE s
               s2 == IF node.Name # NULLPTR /\ node.Val.type # "Nil"
                     THEN Emit(s1, <<"=">>) ELSE s1
           IN  IF node.Val.type = "Nil" THEN Atomic(s2, TRUE)
               ELSE Atomic(Invoke("transformNode", s2, <<node.Val>>), FALSE)
      [] node.type = "ColumnRef" ->
           IF Len(node.Fields) = 0 THEN Fail(s)
           ELSE LET s1 == transformNodeSafe(s, node.Fields[1])
                IN  IF Failed(s1) THEN s1
                    ELSE IF Len(node.Fields) = 1 THEN Atomic(s1, TRUE)
                    ELSE IF node.Fields[2].type = "A_Star"
                    THEN Atomic(Emit(s1, <<".", "*">>), FALSE)
                    ELSE Atomic(transformNodeSafe(Emit(s1, <<".">>), node.Fields[2]), FALSE)
      [] node.type = "String" -> Atomic(Emit(s, <<node.Str>>), TRUE)
      [] node.type = "A_Expr" ->
           CASE node.Kind = "AEXPR_OP" ->
                  LET s1 == Invoke("transformNode", s, <<node.Lexpr>>)
                  IN  IF Failed(s1) THEN s1
                      ELSE IF Len(node.Name) # 1 THEN Fail(s1)
                      ELSE IF node.Name[1].type # "String" THEN Fail(s1)
                      ELSE Atomic(Invoke("transformNode", Emit(s1, <<node.Name[1].Str>>), <<node.Rexpr>>),
                                  FALSE)
             [] node.Kind = "AEXPR_OP_ANY" ->
                  LET s1 == Invoke("transformNode", s, <<node.Lexpr>>)
                  IN  IF Failed(s1) THEN s1
                      ELSE IF Len(node.Name) # 1 THEN Fail(s1)
                      ELSE IF node.Name[1].type # "String" THEN Fail(s1)
                      ELSE LET s2 == Invoke("transformNode", Emit(s1, <<node.Name[1].Str, "ANY", "(">>), <<node.Rexpr>>)
                           IN  IF Failed(s2) THEN s2 ELSE Atomic(Emit(s2, <<")">>), FALSE)
             [] node.Kind = "AEXPR_NULLIF" ->
                  LET s1 == Invoke("transformNode", Emit(s, <<"NULLIF", "(">>), <<node.Lexpr>>)
                      s2 == IF Failed(s1) THEN s1
                            ELSE Invoke("transformNode", Emit(s1, <<",">>), <<node.Rexpr>>)
                  IN  IF Failed(s2) THEN s2 ELSE Atomic(Emit(s2, <<")">>), FALSE)
             [] OTHER -> Fail(s)
      [] node.type = "FuncCall" ->
           LET s1 == transformIdent(s, node.Funcname)
               s2 == IF Failed(s1) THEN s1
                     ELSE IF Len(node.Args) = 0 /\ node.AggStar THEN Emit(s1, <<"(", "*">>)
                     ELSE Invoke("commaSeparated", Emit(s1, <<"(">>), <<node.Args, 1, "transformNode">>)
           IN  IF Failed(s2) THEN s2 ELSE Atomic(Emit(s2, <<")">>), TRUE)
      [] node.type = "BoolExpr" -> Atomic(Invoke("transformBoolExpr", s, <<node>>), FALSE)
      [] node.type = "SubLink" -> Atomic(Invoke("transformSubLink", s, <<node>>), FALSE)
      [] node.type = "A_Const" -> Atomic(transformConst(s, node), TRUE)
      [] node.type = "RangeVar" ->
           LET s1 == Emit(s, <<safestr(node.Relname)>>)
               key == IF node.Alias # NULLPTR THEN node.Alias ELSE node.Relname
               st0 == Get(s.env, node.Relname)
               reg == [env |-> s.envid, key |-> key, rel |-> node.Relname,
                       fresh |-> Get(s.env, key) = noStatus, relTag |-> st0,
                       tag |-> IF Get(s.env, key) # noStatus THEN Get(s.env, key)
                               ELSE IF node.Alias # NULLPTR /\ st0 # noStatus THEN st0
                               ELSE needsTenantID]
           IN  IF node.Alias # NULLPTR
               THEN LET st == Get(s.env, node.Relname)
                    IN  Atomic([Emit(s1, <<safestr(node.Alias)>>) EXCEPT
                                  !.env = IF Get(@, node.Alias) = noStatus
                                          THEN Put(@, node.Alias,
                                                   IF st = noStatus THEN needsTenantID ELSE st)
                                          ELSE @,
                                  !.regs = @ \cup {reg}], FALSE)
               ELSE Atomic([s1 EXCEPT
                              !.env = IF Get(@, node.Relname) = noStatus
                                      THEN Put(@, node.Relname, needsTenantID) ELSE @,
                              !.regs = @ \cup {reg}], TRUE)
      [] node.type = "CoalesceExpr" ->
           LET s1 == Invoke("commaSeparated", Emit(s, <<"COALESCE", "(">>), <<node.Args, 1, "transformNode">>)
           IN  IF Failed(s1) THEN s1 ELSE Atomic(Emit(s1, <<")">>), TRUE)
      [] node.type = "SetToDefault" -> Atomic(Emit(s, <<"DEFAULT">>), TRUE)
      [] node.type = "NullTest" ->
           LET s1 == Invoke("transformNode", s, <<node.Arg>>)
           IN  IF Failed(s1) THEN s1
               ELSE Atomic(CASE node.Nulltesttype = "IS_NULL" -> Emit(s1, <<"IS", "NULL">>)
                             [] node.Nulltesttype = "IS_NOT_NULL" ->
                                  Emit(s1, <<"IS", "NOT", "NULL">>)
                             [] OTHER -> s1, FALSE)
      [] node.type = "CaseExpr" ->
           IF node.Arg.type # "Nil" THEN Fail(s)
           ELSE LET s1 == Invoke("caseArgs", Emit(s, <<"CASE">>), <<node.Args, 1>>)
                    s2 == IF Failed(s1) THEN s1
                          ELSE Invoke("transformNode", Emit(s1, <<"ELSE">>), <<node.Defresult>>)
                IN  IF Failed(s2) THEN s2 ELSE Atomic(Emit(s2, <<"END">>), TRUE)
      [] node.type = "CaseWhen" ->
           LET s1 == Invoke("transformNode", Emit(s, <<"WHEN">>), <<node.Expr>>)
               s2 == IF Failed(s1) THEN s1
                     ELSE Invoke("transformNode", Emit(s1, <<"THEN">>), <<node.Result>>)
           IN  Atomic(s2, TRUE)
      [] node.type = "JoinExpr" ->
           LET larg == node.Larg
               s0 == IF node.Jointype = "JOIN_LEFT" /\ larg.type = "RangeVar"
                     THEN [s EXCEPT !.env = maybeSetIsLeftJoinTable(@,
                              IF larg.Alias # NULLPTR THEN larg.Alias ELSE larg.Relname)]
                     ELSE s
               s1 == Invoke("transformNode", s0, <<larg>>)
               s2 == IF Failed(s1) THEN s1
                     ELSE CASE node.Jointype = "JOIN_INNER" -> Emit(s1, <<"INNER", "JOIN">>)
                            [] node.Jointype = "JOIN_LEFT" -> Emit(s1, <<"LEFT", "JOIN">>)
                            [] OTHER -> Fail(s1)
               s3 == IF Failed(s2) THEN s2 ELSE Invoke("transformNode", s2, <<node.Rarg>>)
           IN  IF Failed(s3) \/ node.Quals.type = "Nil" THEN Atomic(s3, FALSE)
               ELSE Atomic(Invoke("transformWhereHelper", Emit(s3, <<"ON">>), <<node.Quals, FALSE, SortNames(extractTables(<<node.Larg, node.Rarg>>)), "ON">>),
                           FALSE)
      [] node.type = "RowExpr" ->
           LET s1 == Invoke("commaSeparated", Emit(s, <<"(">>), <<node.Args, 1, "transformNode">>)
           IN  IF Failed(s1) THEN s1 ELSE Atomic(Emit(s1, <<")">>), TRUE)
      [] node.type = "SQLValueFunction" ->
           IF node.Op = "SVFOP_CURRENT_TIMESTAMP"
           THEN Atomic(Emit(s, <<"NOW", "(", ")">>), TRUE)
           ELSE Fail(s)
      [] OTHER -> Fail(s)

\* the loops over boolExpr.Args.Items; sep is "AND" or "OR"
transformBoolArgs(s, args, i, sep) ==
    IF Failed(s) \/ i > Len(args) THEN s
    ELSE Invoke("transformBoolArgs", Invoke("transformBoolSubexpr", IF i > 1 THEN Emit(s, <<sep>>) ELSE s, <<args[i]>>), <<args, i + 1, sep>>)

transformBoolExpr(s, boolExpr) ==
    CASE boolExpr.Boolop = "AND_EXPR" -> Invoke("transformBoolArgs", s, <<boolExpr.Args, 1, "AND">>)
      [] boolExpr.Boolop = "OR_EXPR" -> Invoke("transformBoolArgs", s, <<boolExpr.Args, 1, "OR">>)
      [] OTHER ->
           IF Len(boolExpr.Args) # 1 THEN Fail(Emit(s, <<"NOT">>))
           ELSE Invoke("transformBoolSubexpr", Emit(s, <<"NOT">>), <<boolExpr.Args[1]>>)

transformBoolSubexpr(s, expr) ==
    IF expr.type = "BoolExpr"
    THEN LET s1 == Invoke("transformBoolExpr", Emit(s, <<"(">>), <<expr>>)
         IN  IF Failed(s1) THEN s1 ELSE Emit(s1, <<")">>)
    ELSE Invoke("transformNode", s, <<expr>>)

transformSubLink(s, subLink) ==
    CASE subLink.SubLinkType = "EXISTS_SUBLINK" ->
           LET sel == subLink.Subselect
               s1 == Emit(s, <<"EXISTS", "(">>)
           IN  IF sel.type # "SelectStmt" THEN Fail(s1)
               ELSE LET s2 == Leave(Invoke("transformSelect", Enter(s1, newEnv), <<sel, FALSE>>), s1)
                    IN  IF Failed(s2) THEN s2 ELSE Emit(s2, <<")">>)
      [] subLink.SubLinkType = "ANY_SUBLINK" ->
           LET sel == subLink.Subselect
               s1 == Invoke("transformNode", s, <<subLink.Testexpr>>)
           IN  IF Failed(s1) THEN s1
               ELSE IF sel.type # "SelectStmt" THEN Fail(Emit(s1, <<"IN", "(">>))
               ELSE LET s2 == Leave(Invoke("transformSelect", Enter(Emit(s1, <<"IN", "(">>), newEnv), <<sel, FALSE>>), s1)
                    IN  IF Failed(s2) THEN s2 ELSE Emit(s2, <<")">>)
      [] OTHER -> Fail(s)

----------------------------------------------------------------------------
(* conn.go: doTransform *)

\* A call of the rewriter function named fn on state s with arguments a.
\* Nothing is called on a state that carries an error: the caller has
\* returned it ("if err != nil { return err }").
Invoke(fn, s, a) ==
    IF s.err # NoErr THEN s ELSE
    CASE fn = "transformStmt" -> transformStmt(s, a[1])
      [] fn = "transformInsert" -> transformInsert(s, a[1])
      [] fn = "transformSelect" -> transformSelect(s, a[1], a[2])
      [] fn = "transformWhere" -> transformWhere(s, a[1], a[2])
      [] fn = "transformWhereHelper" -> transformWhereHelper(s, a[1], a[2], a[3], a[4])
      [] fn = "transformUpdate" -> transformUpdate(s, a[1])
      [] fn = "handleCTE" -> handleCTE(s, a[1])
      [] fn = "handleCTEItems" -> handleCTEItems(s, a[1], a[2], a[3])
      [] fn = "transformDelete" -> transformDelete(s, a[1])
      [] fn = "transformSelectCol" -> transformSelectCol(s, a[1])
      [] fn = "transformAtom" -> transformAtom(s, a[1])
      [] fn = "transformNode" -> transformNode(s, a[1])
      [] fn = "transformNodeHelper" -> transformNodeHelper(s, a[1])
      [] fn = "transformBoolExpr" -> transformBoolExpr(s, a[1])
      [] fn = "transformBoolArgs" -> transformBoolArgs(s, a[1], a[2], a[3])
      [] fn = "transformBoolSubexpr" -> transformBoolSubexpr(s, a[1])
      [] fn = "transformSubLink" -> transformSubLink(s, a[1])
      [] fn = "commaSeparated" -> commaSeparated(s, a[1], a[2], a[3])
      [] fn = "insertCols" -> insertCols(s, a[1], a[2])
      [] fn = "insertValues" -> insertValues(s, a[1], a[2])
      [] fn = "conflictElems" -> conflictElems(s, a[1], a[2])
      [] fn = "wherePredicates" -> wherePredicates(s, a[1], a[2], a[3], a[4], a[5])
      [] fn = "caseArgs" -> caseArgs(s, a[1], a[2])

\* What doTransform returns once transformTree has: the query, the tenant
\* parameter number and the error; run is the transformer it used (history).
Rewritten(run, tenantIDNum) ==
    IF Failed(run) THEN [Query |-> <<>>, Num |-> 0, err |-> run.err, run |-> run]
    ELSE [Query |-> run.w, Num |-> IF run.isTransformed THEN tenantIDNum ELSE 0,
          err |-> NoErr, run |-> run]

\* doTransform without "if !t.isTransformed { tenantIDNum = 0 }"
Rewritten_NoReset(run, tenantIDNum) ==
    IF Failed(run) THEN [Query |-> <<>>, Num |-> 0, err |-> run.err, run |-> run]
    ELSE [Query |-> run.w, Num |-> tenantIDNum, err |-> NoErr, run |-> run]
doTransform_NoReset(t, order) ==
    Rewritten_NoReset(transformTree(newTransformer(1 + findMaxParam(t), order), t),
                      1 + findMaxParam(t))

\* Conn.doTransform
doTransform(t, order) ==
    Rewritten(transformTree(newTransformer(1 + findMaxParam(t), order), t),
              1 + findMaxParam(t))

----------------------------------------------------------------------------
(* Query text and normalize (conn.go) *)

\* the white-space characters: "NL" is the newline strings.Split cuts at,
\* "SP" and "TAB" the others strings.TrimSpace strips
IsSpace(ch) == ch \in {"SP", "TAB", "NL"}

RECURSIVE Split(_, _)
\* strings.Split(q, "\n"): cur is the line collected so far
Split(q, cur) ==
    IF q = <<>> THEN <<cur>>
    ELSE IF Head(q) = "NL" THEN <<cur>> \o Split(Tail(q), <<>>)
    ELSE Split(Tail(q), Append(cur, Head(q)))

RECURSIVE TrimLeft(_)
TrimLeft(line) ==
    IF line # <<>> /\ IsSpace(Head(line)) THEN TrimLeft(Tail(line)) ELSE line
RECURSIVE TrimRight(_)
TrimRight(line) ==
    IF line # <<>> /\ IsSpace(line[Len(line)])
    THEN TrimRight(SubSeq(line, 1, Len(line) - 1)) ELSE line
\* strings.TrimSpace
TrimSpace(line) == TrimRight(TrimLeft(line))

RECURSIVE DropLeadingEmpty(_)
DropLeadingEmpty(lines) ==
    IF Len(lines) > 0 /\ Len(lines[1]) = 0 THEN DropLeadingEmpty(Tail(lines)) ELSE lines
RECURSIVE DropTrailingEmpty(_)
DropTrailingEmpty(lines) ==
    IF Len(lines) > 0 /\ Len(lines[Len(lines)]) = 0
    THEN DropTrailingEmpty(SubSeq(lines, 1, Len(lines) - 1)) ELSE lines

RECURSIVE Join(_)
\* strings.Join(lines, " ")
Join(lines) ==
    IF lines = <<>> THEN <<>>
    ELSE IF Len(lines) = 1 THEN lines[1]
    ELSE lines[1] \o <<"SP">> \o Join(Tail(lines))

\* a normalize that keeps the empty lines at both ends
normalize_KeepEmpty(q) ==
    Join([i \in DOMAIN Split(q, <<>>) |-> TrimSpace(Split(q, <<>>)[i])])

normalize(q) ==
    LET lines == Split(q, <<>>)
        trimmed == [i \in DOMAIN lines |-> TrimSpace(lines[i])]
    IN  Join(DropTrailingEmpty(DropLeadingEmpty(trimmed)))

----------------------------------------------------------------------------
(* The queries the driver is run on, and pg_query.Parse on them *)

Eq(l, r) == A_Expr("AEXPR_OP", "=", l, r)
Target(val) == ResTarget(NULLPTR, val)
Stmt(x) == ParsetreeList(<<RawStmt(x)>>)

\* SELECT a FROM foo WHERE b = $1                       (example_test.go)
QSel == <<"SELECT", "SP", "a", "SP", "FROM", "SP", "foo", "SP", "WHERE", "SP", "b", "SP",
          "=", "SP", "$1">>
TSel == SelectStmt(<<Target(Col("a"))>>, <<RangeVar("foo", NULLPTR)>>,
                   Eq(Col("b"), ParamRef(1)))
\* INSERT INTO foo (a, b) VALUES ($1, $2)               (example_test.go)
QIns == <<"INSERT", "SP", "INTO", "SP", "foo", "SP", "(a,", "SP", "b)", "SP", "VALUES", "SP",
          "($1,", "SP", "$2)">>
TIns == InsertStmt(RangeVar("foo", NULLPTR), <<ResTarget("a", Nil), ResTarget("b", Nil)>>,
                   ValuesStmt(<<ParamRef(1), ParamRef(2)>>))
\* SELECT foo FROM bar                                  (TestEscape)
QBar == <<"SELECT", "SP", "foo", "SP", "FROM", "SP", "bar">>
TBar == SelectStmt(<<Target(Col("foo"))>>, <<RangeVar("bar", NULLPTR)>>, Nil)
\* SELECT nextval('salt')                               (testQueries)
QSalt == <<"SELECT", "SP", "nextval('salt')">>
TSalt == SelectStmt(<<Target(FuncCall("nextval", <<A_Const(String("salt"))>>))>>, <<>>, Nil)
\* SELECT score('proper-market', $1)                    (testQueries)
QScore == <<"SELECT", "SP", "score('proper-market',", "SP", "$1)">>
TScore == SelectStmt(<<Target(FuncCall("score", <<A_Const(String("proper-market")),
                                                  ParamRef(1)>>))>>, <<>>, Nil)
\* SELECT DISTINCT a FROM foo: parses, but the rewriter rejects it
QDist == <<"SELECT", "SP", "DISTINCT", "SP", "a", "SP", "FROM", "SP", "foo">>
TDist == [SelectStmt(<<Target(Col("a"))>>, <<RangeVar("foo", NULLPTR)>>, Nil)
             EXCEPT !.DistinctClause = <<Nil>>]
\* SELEC foo: a syntax error
QBad == <<"SELEC", "SP", "foo">>

\* CREATE TABLE foo (a int): a statement of a kind the rewriter has no case for
QCreate == <<"CREATE", "SP", "TABLE", "SP", "foo", "SP", "(a", "SP", "int)">>
\* SELECT 1; SELECT 2: two statements in one string
QTwo == <<"SELECT", "SP", "1;", "SP", "SELECT", "SP", "2">>
TTwo == ParsetreeList(<<RawStmt(SelectStmt(<<Target(A_Const(Integer(1)))>>, <<>>, Nil)),
                        RawStmt(SelectStmt(<<Target(A_Const(Integer(2)))>>, <<>>, Nil))>>)

\* texts that parse to something other than one statement of the four kinds
ParseLists ==
    {<<QCreate, Stmt(OtherStmt)>>, <<QTwo, TTwo>>}

ParseTable ==
    {<<QSel, TSel>>, <<QIns, TIns>>, <<QBar, TBar>>, <<QSalt, TSalt>>, <<QScore, TScore>>,
     <<QDist, TDist>>}

\* the text without its white space: all the parser's lexer keeps
Words(q) == SelectSeq(q, LAMBDA ch : ~IsSpace(ch))

\* pg_query.Parse(q): the statement's tree, or a syntax error
Parse(q) ==
    IF \E e \in ParseTable : Words(e[1]) = Words(q)
    THEN [err |-> NoErr, tree |-> Stmt((CHOOSE e \in ParseTable : Words(e[1]) = Words(q))[2])]
    ELSE IF \E e \in ParseLists : Words(e[1]) = Words(q)
    THEN [err |-> NoErr, tree |-> (CHOOSE e \in ParseLists : Words(e[1]) = Words(q))[2]]
    ELSE [err |-> "syntax error", tree |-> ParsetreeList(<<>>)]

\* q written over several lines: a leading blank line, the second gap a
\* newline with indentation, trailing spaces
MultiLine(q) ==
    <<"NL", "TAB">> \o SubSeq(q, 1, 3) \o <<"SP", "NL", "SP", "SP">> \o SubSeq(q, 5, Len(q))
    \o <<"SP", "NL">>

----------------------------------------------------------------------------
(* The rewrite cache (queryCache over groupcache/lru) *)

maxCachedQueries == 1000

\* qc.cache == nil
NilCache == [alloc |-> FALSE, ll |-> <<>>]
IndexOf(ll, q) == CHOOSE i \in DOMAIN ll : ll[i].key = q
Cached(cache, q) == cache.alloc /\ \E i \in DOMAIN cache.ll : cache.ll[i].key = q
\* lru's MoveToFront
MoveToFront(ll, i) == <<ll[i]>> \o SubSeq(ll, 1, i - 1) \o SubSeq(ll, i + 1, Len(ll))

\* queryCache.lookup: the value, whether it was found, and the cache after
lookup(cache, q) ==
    IF ~cache.alloc THEN [tq |-> [Query |-> <<>>, Num |-> 0], ok |-> FALSE, cache |-> cache]
    ELSE IF Cached(cache, q)
    THEN [tq |-> cache.ll[IndexOf(cache.ll, q)].value, ok |-> TRUE,
          cache |-> [cache EXCEPT !.ll = MoveToFront(@, IndexOf(@, q))]]
    ELSE [tq |-> [Query |-> <<>>, Num |-> 0], ok |-> FALSE, cache |-> cache]

\* an add that allocates the cache and stores nothing
add_Nothing(cache, q, transformed) ==
    IF cache.alloc THEN cache ELSE [alloc |-> TRUE, ll |-> <<>>]

\* queryCache.add: the cache after
add(cache, q, transformed) ==
    LET c == IF cache.alloc THEN cache ELSE [alloc |-> TRUE, ll |-> <<>>]
        entry == [key |-> q, value |-> transformed]
    IN  IF Cached(c, q)
        THEN [c EXCEPT !.ll = <<entry>> \o SubSeq(@, 1, IndexOf(@, q) - 1)
                                \o SubSeq(@, IndexOf(@, q) + 1, Len(@))]
        ELSE LET ll == <<entry>> \o c.ll
             IN  [c EXCEPT !.ll = IF Len(ll) > maxCachedQueries
                                  THEN SubSeq(ll, 1, Len(ll) - 1) ELSE ll]

----------------------------------------------------------------------------
(* Conn (conn.go) *)

\* a context value that was never attached
NoValue == [type |-> "Nil"]
Value(v) == [type |-> "Value", value |-> v]
HasQuery(ctx) == ctx.query.type # "Nil"
HasTenant(ctx) == ctx.tenant.type # "Nil"
\* context.Background()
Background == [query |-> NoValue, tenant |-> NoValue]

Transformed(q, num) == [Query |-> q, Num |-> num]

\* c.driver.Whitelist[query], for a query that is a key
found_NumZero(wl, query) == [wl[query] EXCEPT !.Num = 0]
found(wl, query) == wl[query]

\* an escape test that compares the attached text as it was written
escaped_Raw(ctx, query) == HasQuery(ctx) /\ ctx.query.value = query
\* escapedQuery, ok := ctx.Value(queryKey).(string); ok && normalize(escapedQuery) == query
escaped(ctx, query) == HasQuery(ctx) /\ normalize(ctx.query.value) = query

\* what Conn.transform returns when it has not come far
Quiet(cache) ==
    [Query |-> <<>>, Num |-> 0, err |-> NoErr, errQuery |-> <<>>, cache |-> cache,
     looked |-> FALSE, parsed |-> FALSE, rewrote |-> FALSE]

\* the end of Conn.transform: the rewriter's result r is returned, and
\* stored in the cache if it is not an error
Store(quiet, cache, query, r) ==
    IF r.err # NoErr
    THEN [quiet EXCEPT !.err = r.err, !.looked = TRUE, !.parsed = TRUE, !.rewrote = TRUE]
    ELSE [quiet EXCEPT !.Query = r.Query, !.Num = r.Num,
                       !.cache = add(cache, query, Transformed(r.Query, r.Num)),
                       !.looked = TRUE, !.parsed = TRUE, !.rewrote = TRUE]
\* the same, storing before the error is tested
Store_AddFirst(quiet, cache, query, r) ==
    [quiet EXCEPT !.Query = IF r.err # NoErr THEN <<>> ELSE r.Query,
                  !.Num = IF r.err # NoErr THEN 0 ELSE r.Num,
                  !.err = r.err,
                  !.cache = add(cache, query, Transformed(r.Query, r.Num)),
                  !.looked = TRUE, !.parsed = TRUE, !.rewrote = TRUE]

\* Conn.transform on a query parsed to p after the cache answered hit
Parsed(quiet, hit, query, p, order) ==
    IF p.err # NoErr
    THEN [quiet EXCEPT !.err = p.err, !.looked = TRUE, !.parsed = TRUE]
    ELSE Store(quiet, hit.cache, query, doTransform(p.tree, order))
Parsed_AddFirst(quiet, hit, query, p, order) ==
    IF p.err # NoErr
    THEN [quiet EXCEPT !.err = p.err, !.looked = TRUE, !.parsed = TRUE]
    ELSE Store_AddFirst(quiet, hit.cache, query, doTransform(p.tree, order))

\* Conn.transform on an escaped query after the cache answered hit
Looked(quiet, hit, query, order) ==
    IF hit.ok
    THEN [quiet EXCEPT !.Query = hit.tq.Query, !.Num = hit.tq.Num,
                       !.cache = hit.cache, !.looked = TRUE]
    ELSE Parsed(quiet, hit, query, Parse(query), order)
Looked_AddFirst(quiet, hit, query, order) ==
    IF hit.ok
    THEN [quiet EXCEPT !.Query = hit.tq.Query, !.Num = hit.tq.Num,
                       !.cache = hit.cache, !.looked = TRUE]
    ELSE Parsed_AddFirst(quiet, hit, query, Parse(query), order)

\* Conn.transform after "query = normalize(query)"
Normalized(wl, cache, ctx, query, order) ==
    IF query \in DOMAIN wl
    THEN [Quiet(cache) EXCEPT !.Query = found(wl, query).Query,
                              !.Num = found(wl, query).Num]
    ELSE IF ~escaped(ctx, query)
    THEN [Quiet(cache) EXCEPT !.err = "ErrUnknownQuery", !.errQuery = query]
    ELSE Looked(Quiet(cache), lookup(cache, query), query, order)
Normalized_AddFirst(wl, cache, ctx, query, order) ==
    IF query \in DOMAIN wl
    THEN [Quiet(cache) EXCEPT !.Query = found(wl, query).Query,
                              !.Num = found(wl, query).Num]
    ELSE IF ~escaped(ctx, query)
    THEN [Quiet(cache) EXCEPT !.err = "ErrUnknownQuery", !.errQuery = query]
    ELSE Looked_AddFirst(Quiet(cache), lookup(cache, query), query, order)

\* Conn.transform storing the rewriter's result before it tests the error
transform_AddFirst(wl, cache, ctx, rawQuery, order) ==
    Normalized_AddFirst(wl, cache, ctx, normalize(rawQuery), order)

(***************************************************************************)
(* Conn.transform: what it returns (Query, Num, err; errQuery is the text  *)
(* an ErrUnknownQuery wraps) and the cache it leaves.  looked, parsed and  *)
(* rewrote (history) tell whether the cache was consulted and whether      *)
(* pg_query.Parse and doTransform were called.                             *)
(***************************************************************************)
transform(wl, cache, ctx, rawQuery, order) ==
    Normalized(wl, cache, ctx, normalize(rawQuery), order)

\* an ID that answers the zero value when nothing is attached
ID_NoCheck(ctx) ==
    IF ~HasTenant(ctx) THEN [id |-> Value(0), err |-> NoErr]
    ELSE [id |-> ctx.tenant, err |-> NoErr]
\* ID(ctx)
ID(ctx) ==
    IF ~HasTenant(ctx) THEN [id |-> NoValue, err |-> "ErrNoID"]
    ELSE [id |-> ctx.tenant, err |-> NoErr]

\* driver.NamedValue{Ordinal: n, Value: v}
NamedValue(n, v) == [Ordinal |-> n, Value |-> v]

\* a tenant argument numbered by its place in the list
tenantIDArg_ByPosition(tenantIDNum, id, args) == NamedValue(Len(args) + 1, id)
\* tenantIDArg := driver.NamedValue{Ordinal: tenantIDNum, Value: id}
tenantIDArg(tenantIDNum, id, args) == NamedValue(tenantIDNum, id)

NoSend == [op |-> "none"]

\* QueryContext and ExecContext after c.transform returned t and, if
\* tenantIDNum > 0, ID(ctx) returned id
Forwarded(op, t, id, args) ==
    IF t.err # NoErr THEN [err |-> t.err, t |-> t, sent |-> NoSend]
    ELSE IF t.Num > 0 /\ id.err # NoErr THEN [err |-> id.err, t |-> t, sent |-> NoSend]
    ELSE [err |-> NoErr, t |-> t,
          sent |-> [op |-> op, query |-> t.Query,
                    args |-> IF t.Num > 0
                             THEN Append(args, tenantIDArg(t.Num, id.id.value, args))
                             ELSE args]]

(***************************************************************************)
(* QueryContext and ExecContext, which differ only in the method of the    *)
(* underlying connection they end in (op): the outcome is the error        *)
(* returned, what Conn.transform did (t) and what was forwarded (sent).    *)
(***************************************************************************)
forward(op, wl, cache, ctx, rawQuery, args, order) ==
    Forwarded(op, transform(wl, cache, ctx, rawQuery, order), ID(ctx), args)

QueryContextOp(wl, cache, ctx, rawQuery, args, order) ==
    forward("QueryContext", wl, cache, ctx, rawQuery, args, order)
ExecContextOp(wl, cache, ctx, rawQuery, args, order) ==
    forward("ExecContext", wl, cache, ctx, rawQuery, args, order)

\* Conn.Prepare after c.transform returned t
Prepared(t) ==
    IF t.err # NoErr THEN [err |-> t.err, t |-> t, sent |-> NoSend]
    ELSE [err |-> NoErr, t |-> t, sent |-> [op |-> "Prepare", query |-> t.Query, args |-> <<>>]]
\* a Prepare whose context carries the query as its escape
PrepareOp_Escaped(wl, cache, rawQuery, order) ==
    Prepared(transform(wl, cache, [query |-> Value(rawQuery), tenant |-> NoValue],
                       rawQuery, order))
\* Conn.Prepare
PrepareOp(wl, cache, rawQuery, order) ==
    Prepared(transform(wl, cache, Background, rawQuery, order))

----------------------------------------------------------------------------
(* The driver in use: a Conn of a Driver with a whitelist, serving calls *)

\* the whitelist of example_test.go
ExampleWhitelist ==
    (QIns :> Transformed(<<"INSERT", "INTO", "foo", "(", "a", ",", "b", ",", "tenant_id", ")",
                           "VALUES", "(", "$1", ",", "$2", ",", "$3", ")">>, 3))
    @@ (QSel :> Transformed(<<"SELECT", "a", "FROM", "foo", "WHERE", "b", "=", "$1", "AND",
                              "tenant_id", "=", "$2">>, 2))
\* a whitelist with an entry that needs no tenant parameter (testQueries)
TestWhitelist ==
    (QSalt :> Transformed(<<"SELECT", "nextval", "(", "'salt'", ")">>, 0))
    @@ (QSel :> Transformed(<<"SELECT", "a", "FROM", "foo", "WHERE", "b", "=", "$1", "AND",
                              "tenant_id", "=", "$2">>, 2))
Whitelists == {ExampleWhitelist, TestWhitelist}

\* the query strings callers pass
RawQueries ==
    {QSel, QIns, QBar, QSalt, QDist, QBad, MultiLine(QBar), MultiLine(QSel),
     QCreate, QTwo}
\* the query strings callers attach with WithQuery when they pass q
EscapeTexts(q) == {q, QBar, MultiLine(QBar)}
TenantIDs == {17}
\* WithQuery and WithTenantID applied, or not, to context.Background()
Contexts(q) ==
    {[query |-> e, tenant |-> id] :
        e \in {NoValue} \cup {Value(x) : x \in EscapeTexts(q)},
        id \in {NoValue} \cup {Value(x) : x \in TenantIDs}}
\* the caller's positional arguments
Args(n) == [i \in 1..n |-> NamedValue(i, "arg")]
ArgLists == {Args(n) : n \in 0..MaxArgs}

\* the orders Go's map iteration can produce matter only to a rewrite that
\* promotes a left-join table
DefaultOrder == "a"
OrdersFor(q) ==
    LET p == Parse(normalize(q))
    IN  IF p.err = NoErr /\ doTransform(p.tree, DefaultOrder).run.forked
        THEN Names ELSE {DefaultOrder}

NoCall == [op |-> "none"]
NoTree == ParsetreeList(<<>>)
Idle == [state |-> "idle"]

\* the record of a finished call: what went in and what came back
Returned(op, ctx, q, args, r) ==
    [op |-> op, ctx |-> ctx, query |-> q, args |-> args, err |-> r.err,
     Query |-> r.t.Query, Num |-> r.t.Num, errQuery |-> r.t.errQuery,
     terr |-> r.t.err, looked |-> r.t.looked, parsed |-> r.t.parsed,
     rewrote |-> r.t.rewrote, before |-> [cache |-> dynamicCache, whitelist |-> whitelist]]

Init ==
    /\ whitelist \in Whitelists
    /\ dynamicCache = NilCache
    /\ call = NoCall
    /\ sent = NoSend
    /\ tested = "untested"
    /\ tree = NoTree
    /\ rw = Idle

\* a call op(ctx, q, args) returns r
Return(op, ctx, q, args, r) ==
    /\ call' = Returned(op, ctx, q, args, r)
    /\ dynamicCache' = r.t.cache
    /\ sent' = r.sent
    /\ UNCHANGED <<whitelist, tested, tree, rw>>

QueryContext ==
    \E q \in RawQueries, args \in ArgLists :
      \E ctx \in Contexts(q), order \in OrdersFor(q) :
        Return("QueryContext", ctx, q, args,
               QueryContextOp(whitelist, dynamicCache, ctx, q, args, order))

ExecContext ==
    \E q \in RawQueries, args \in ArgLists :
      \E ctx \in Contexts(q), order \in OrdersFor(q) :
        Return("ExecContext", ctx, q, args,
               ExecContextOp(whitelist, dynamicCache, ctx, q, args, order))

Prepare ==
    \E q \in RawQueries :
      \E order \in OrdersFor(q) :
        Return("Prepare", Background, q, <<>>,
               PrepareOp(whitelist, dynamicCache, q, order))

Next == QueryContext \/ ExecContext \/ Prepare

Spec == Init /\ [][Next]_vars

----------------------------------------------------------------------------
(* The statements the rewriter is run on.  t and u are base tables, a and  *)
(* b aliases, c a CTE name used only inside the WITH that declares it, s   *)
(* the alias of a FROM-subselect; x and k are columns.                     *)

Params == {ParamRef(n) : n \in 1..MaxParam}
Cond(n) == Eq(Col("x"), ParamRef(n))
On(l, r) == Eq(QCol(l, "k"), QCol(r, "k"))
Tbl(rel) == RangeVar(rel, NULLPTR)
TblAs(rel, alias) == RangeVar(rel, alias)
\* how a range variable is referred to: its alias, else its relation name
RefName(rv) == IF rv.Alias = NULLPTR THEN rv.Relname ELSE rv.Alias

SubSel(n) == SelectStmt(<<Target(Col("x"))>>, <<Tbl("u")>>, Cond(n))
Wheres ==
    {Nil, BoolExpr("OR_EXPR", <<Cond(1), Cond(MaxParam)>>),
     SubLink("EXISTS_SUBLINK", Nil, SubSel(MaxParam)),
     SubLink("ANY_SUBLINK", Col("x"), SubSel(1))}
    \cup {Cond(n) : n \in 1..MaxParam}

LeftTables == {Tbl("t"), TblAs("t", "a")}
RightTables == {Tbl("u"), TblAs("u", "b"), TblAs("t", "b")}
JoinTypes == {"JOIN_INNER", "JOIN_LEFT", "JOIN_FULL"}
Joins ==
    {JoinExpr(jt, l, r, q) :
        jt \in JoinTypes, l \in LeftTables, r \in RightTables,
        q \in {Nil, Eq(Col("k"), Col("x"))}}
    \cup {JoinExpr(jt, l, r, On(RefName(l), RefName(r))) :
            jt \in JoinTypes, l \in LeftTables, r \in RightTables}
\* a join whose left side is itself a join
Joins3 ==
    {JoinExpr(jt2, JoinExpr(jt1, Tbl("t"), Tbl("u"), On("t", "u")), r, On("u", RefName(r))) :
        jt1 \in {"JOIN_INNER", "JOIN_LEFT"}, jt2 \in {"JOIN_INNER", "JOIN_LEFT"},
        r \in {TblAs("t", "a"), TblAs("u", "b"), Tbl("t")}}
FromItems ==
    LeftTables \cup {Tbl("u")} \cup Joins \cup Joins3
    \cup {RangeSubselect(SubSel(1), "s")}
FromLists ==
    {<<>>} \cup {<<f>> : f \in FromItems}
    \cup {<<l, r>> :
            l \in {Tbl("t"), JoinExpr("JOIN_LEFT", Tbl("t"), TblAs("t", "a"), On("t", "a"))},
            r \in {Tbl("u"), TblAs("u", "b"), RangeSubselect(SubSel(1), "s"),
                   JoinExpr("JOIN_LEFT", Tbl("u"), TblAs("u", "b"), On("u", "b"))}}
    \cup {<<JoinExpr("JOIN_LEFT", Tbl("t"), Tbl("u"), On("t", "u")),
             JoinExpr("JOIN_LEFT", Tbl("foo"), Tbl("bar"), On("foo", "bar"))>>,
           <<JoinExpr("JOIN_LEFT", Tbl("t"),
                      JoinExpr("JOIN_LEFT", Tbl("foo"), Tbl("bar"), On("foo", "bar")),
                      On("t", "foo"))>>}

Selects ==
    {SelectStmt(<<Target(Col("x"))>>, f, w) : f \in FromLists, w \in Wheres}
    \cup {[SelectStmt(<<Target(tg)>>, <<f>>, w) EXCEPT !.LimitCount = lc, !.LimitOffset = lo] :
            tg \in {Col("x")} \cup Params, f \in LeftTables, w \in {Nil, Cond(1)},
            lc \in {Nil} \cup Params, lo \in {Nil, ParamRef(MaxParam)}}
    \cup {[SelectStmt(<<Target(Col("x"))>>, <<Tbl("t")>>, Nil) EXCEPT !.DistinctClause = <<Nil>>],
          [SelectStmt(<<Target(Col("x"))>>, <<Tbl("t")>>, Nil) EXCEPT !.Op = "SETOP_UNION"]}

\* conditions built from NOT, and from AND and OR one inside the other
BoolWheres ==
    {BoolExpr("NOT_EXPR", <<Cond(1)>>),
     BoolExpr("NOT_EXPR", <<BoolExpr("OR_EXPR", <<Cond(1), Cond(MaxParam)>>)>>),
     BoolExpr("AND_EXPR", <<BoolExpr("OR_EXPR", <<Cond(1), Cond(MaxParam)>>), Cond(1)>>),
     BoolExpr("OR_EXPR", <<BoolExpr("AND_EXPR", <<Cond(1), Cond(MaxParam)>>), Cond(1)>>)}
BoolSelects ==
    {SelectStmt(<<Target(Col("x"))>>, <<Tbl("t")>>, w) : w \in BoolWheres}
    \cup {SelectStmt(<<Target(Col("x"))>>, <<JoinExpr(jt, Tbl("t"), Tbl("u"), q)>>, w) :
            jt \in {"JOIN_INNER", "JOIN_LEFT"}, q \in BoolWheres, w \in {Nil, Cond(1)}}

Updates ==
    {UpdateStmt(r, <<ResTarget("x", v)>>, f, w, ret) :
        r \in LeftTables, v \in {ParamRef(1)},
        f \in {<<>>, <<Tbl("u")>>, <<TblAs("u", "b")>>,
               <<JoinExpr("JOIN_LEFT", Tbl("u"), TblAs("t", "b"), On("u", "b"))>>},
        w \in Wheres,
        ret \in {<<>>, <<Target(Col("x"))>>, <<Target(ParamRef(MaxParam))>>}}

Deletes ==
    {DeleteStmt(r, us, w) :
        r \in LeftTables, us \in {<<>>, <<Tbl("u")>>, <<TblAs("u", "b")>>}, w \in Wheres}

Conflicts ==
    {Nil,
     OnConflictClause("ONCONFLICT_NOTHING", Nil, <<>>, Nil),
     OnConflictClause("ONCONFLICT_NOTHING", InferClause(<<IndexElem("k")>>), <<>>, Nil),
     OnConflictClause("ONCONFLICT_UPDATE", InferClause(<<IndexElem("k")>>),
                      <<ResTarget("x", ParamRef(MaxParam))>>, Nil),
     OnConflictClause("ONCONFLICT_UPDATE", InferClause(<<IndexElem("k")>>),
                      <<ResTarget("x", ParamRef(1))>>, Cond(MaxParam))}
InsertSources ==
    {ValuesStmt(<<p, Col("x")>>) : p \in Params}
    \cup {ValuesStmt(<<A_Const(Integer(1))>>)}
    \cup {[ValuesStmt(<<ParamRef(1)>>) EXCEPT !.ValuesLists = <<<<ParamRef(1)>>, <<ParamRef(1)>>>>]}
    \cup {SelectStmt(<<Target(Col("x")), Target(Col("k"))>>, f, w) :
            f \in {<<Tbl("u")>>, <<TblAs("u", "b")>>,
                   <<JoinExpr("JOIN_LEFT", Tbl("u"), Tbl("t"), On("u", "t"))>>},
            w \in {Nil, Cond(MaxParam)}}
Inserts ==
    {[InsertStmt(r, <<ResTarget("x", Nil), ResTarget("k", Nil)>>, src)
        EXCEPT !.OnConflictClause = oc, !.ReturningList = ret] :
        r \in LeftTables, src \in InsertSources, oc \in Conflicts,
        ret \in {<<>>, <<Target(Col("x"))>>}}

\* INSERT INTO t VALUES (...) and INSERT INTO t SELECT ...: no column list
InsertsNoCols ==
    {InsertStmt(Tbl("t"), <<>>, src) :
        src \in {ValuesStmt(<<ParamRef(1)>>), ValuesStmt(<<ParamRef(1), ParamRef(MaxParam)>>),
                 SelectStmt(<<Target(Col("x"))>>, <<Tbl("u")>>, Nil)}}

\* ON CONFLICT (k, x) with two targets, and ON CONFLICT ON CONSTRAINT c,
\* whose InferClause holds the constraint's name and no index element
ConflictInserts ==
    {[InsertStmt(Tbl("t"), <<ResTarget("x", Nil)>>, ValuesStmt(<<ParamRef(1)>>))
        EXCEPT !.OnConflictClause = oc] :
        oc \in {OnConflictClause("ONCONFLICT_NOTHING",
                                 InferClause(<<IndexElem("k"), IndexElem("x")>>), <<>>, Nil),
                OnConflictClause("ONCONFLICT_NOTHING", InferClause(<<>>), <<>>, Nil),
                OnConflictClause("ONCONFLICT_UPDATE", InferClause(<<>>),
                                 <<ResTarget("x", ParamRef(1))>>, Nil)}}

\* the constructs the rewriter does not implement, and their neighbours
\* that it does: SELECT * at the top level, CASE WHEN, CURRENT_TIMESTAMP;
\* last, SELECT DISTINCT as the body of a CTE in front of a DELETE
StarFrom(rel) == SelectStmt(<<Target(ColumnRef(<<A_Star>>))>>, <<Tbl(rel)>>, Nil)
CaseOf(arg) == CaseExpr(arg, <<CaseWhen(Cond(1), Col("x"))>>, Col("k"))
Constructs ==
    {StarFrom("t"),
     InsertStmt(Tbl("t"), <<ResTarget("x", Nil)>>, StarFrom("u")),
     SelectStmt(<<Target(Col("x"))>>,
                <<RangeSubselect([SubSel(1) EXCEPT !.DistinctClause = <<Nil>>], "s")>>, Nil),
     [InsertStmt(Tbl("t"), <<ResTarget("x", Nil)>>, ValuesStmt(<<ParamRef(1)>>))
        EXCEPT !.SelectStmt.ValuesLists = <<<<ParamRef(1)>>, <<ParamRef(1)>>, <<ParamRef(1)>>>>]}
    \cup {SelectStmt(<<Target(Col("x"))>>,
                     <<JoinExpr("JOIN_RIGHT", Tbl("t"), Tbl("u"), On("t", "u"))>>, w) :
            w \in {Nil, Cond(1)}}
    \cup {SelectStmt(<<Target(CaseOf(arg))>>, <<Tbl("t")>>, Nil) : arg \in {Nil, Col("x")}}
    \cup {SelectStmt(<<Target(Col("x"))>>, <<Tbl("t")>>, SubLink(kind, test, SubSel(1))) :
            kind \in {"ALL_SUBLINK", "EXPR_SUBLINK", "ARRAY_SUBLINK"},
            test \in {Nil, Col("x")}}
    \cup {SelectStmt(<<Target(SQLValueFunction(op))>>, <<Tbl("t")>>, Nil) :
            op \in {"SVFOP_CURRENT_TIMESTAMP", "SVFOP_CURRENT_DATE", "SVFOP_CURRENT_USER"}}
    \cup {With(<<CommonTableExpr("c", [SubSel(1) EXCEPT !.DistinctClause = <<Nil>>])>>,
                DeleteStmt(Tbl("t"), <<>>, Cond(1)))}

\* ON CONFLICT (lower(k)): an index element that is an expression has no
\* name
ExprConflicts ==
    {[InsertStmt(Tbl("t"), <<ResTarget("x", Nil)>>, ValuesStmt(<<ParamRef(1)>>))
        EXCEPT !.OnConflictClause =
            OnConflictClause("ONCONFLICT_NOTHING", InferClause(elems), <<>>, Nil)] :
        elems \in {<<IndexElem(NULLPTR)>>, <<IndexElem("k"), IndexElem(NULLPTR)>>}}

\* a CTE whose body uses the name t for a FROM-subselect or for a CTE of
\* its own, in front of a statement that reads the table t
ShadowBodies ==
    {SelectStmt(<<Target(Col("x"))>>, <<RangeSubselect(SubSel(1), "t")>>, Nil),
     With(<<CommonTableExpr("t", SubSel(1))>>,
          SelectStmt(<<Target(Col("x"))>>, <<Tbl("t")>>, Nil))}
Shadows ==
    {With(<<CommonTableExpr("c", body)>>, SelectStmt(<<Target(Col("x"))>>, f, w)) :
        body \in ShadowBodies, f \in {<<Tbl("t")>>, <<Tbl("t"), Tbl("c")>>},
        w \in {Nil, Cond(1)}}

\* binary operators and casts, one the operand of another
Op(op, l, r) == A_Expr("AEXPR_OP", op, l, r)
Nested ==
    {Op("*", Op("+", Col("a"), Col("b")), Col("c")),
     Op("+", Col("a"), Op("*", Col("b"), Col("c"))),
     Op("-", Col("a"), Op("-", Col("b"), Col("c"))),
     Op("-", Op("-", Col("a"), Col("b")), Col("c")),
     Op("/", Col("a"), Op("*", Col("b"), Col("c"))),
     TypeCast(Op("+", Col("a"), Col("b")), "text"),
     Op("+", TypeCast(Col("a"), "text"), Col("b")),
     TypeCast(TypeCast(Col("a"), "text"), "name")}
NestedSelects == {SelectStmt(<<Target(e)>>, <<Tbl("t")>>, Nil) : e \in Nested}

\* WITH c AS (...) in front of statements that refer to c
CteBodies ==
    {SelectStmt(<<Target(Col("x"))>>, <<Tbl("t")>>, w) : w \in {Nil, Cond(MaxParam)}}
    \cup {[InsertStmt(Tbl("t"), <<ResTarget("x", Nil)>>, ValuesStmt(<<ParamRef(1)>>))
              EXCEPT !.ReturningList = <<Target(Col("x"))>>],
          UpdateStmt(Tbl("t"), <<ResTarget("x", ParamRef(1))>>, <<>>, Nil, <<Target(Col("x"))>>)}
CteUsers ==
    {SelectStmt(<<Target(Col("x"))>>, <<f>>, w) :
        f \in {Tbl("c"), TblAs("c", "a"),
               JoinExpr("JOIN_INNER", Tbl("u"), Tbl("c"), On("u", "c")),
               JoinExpr("JOIN_LEFT", Tbl("u"), Tbl("c"), On("u", "c")),
               JoinExpr("JOIN_LEFT", Tbl("c"), Tbl("u"), On("c", "u"))},
        w \in {Nil, Cond(1)}}
    \cup {UpdateStmt(Tbl("u"), <<ResTarget("x", ParamRef(1))>>, <<Tbl("c")>>, w, <<>>) :
            w \in {Nil, On("u", "c")}}
    \cup {InsertStmt(Tbl("u"), <<ResTarget("x", Nil)>>,
                     SelectStmt(<<Target(Col("x"))>>, <<Tbl("c")>>, Nil)),
          DeleteStmt(Tbl("u"), <<Tbl("c")>>, On("u", "c"))}
Withs ==
    {With(<<CommonTableExpr("c", body)>>, user) : body \in CteBodies, user \in CteUsers}
    \cup {With(<<CommonTableExpr("c", body),
                 CommonTableExpr("d", SelectStmt(<<Target(Col("x"))>>, <<Tbl("c")>>, Nil))>>,
               SelectStmt(<<Target(Col("x"))>>, <<Tbl("d"), Tbl("u")>>, Nil)) :
            body \in CteBodies}

Statements ==
    Selects \cup BoolSelects \cup Updates \cup Deletes \cup Inserts \cup InsertsNoCols
    \cup ConflictInserts \cup Constructs \cup NestedSelects \cup ExprConflicts
    \cup Shadows
    \cup Withs \cup {OtherStmt}

\* what pg_query.Parse can hand over: one statement, none, or several
Corpus ==
    {Stmt(x) : x \in Statements}
    \cup {ParsetreeList(<<>>),
          ParsetreeList(<<RawStmt(SubSel(1)), RawStmt(SubSel(1))>>)}

----------------------------------------------------------------------------
(* The rewriter run on its own: doTransform applied to a parse tree *)

Ready == [state |-> "ready"]
Done(out) == [state |-> "done", out |-> out]

RwInit ==
    /\ tree \in Corpus
    /\ rw = Ready
    /\ whitelist = ExampleWhitelist
    /\ dynamicCache = NilCache
    /\ call = NoCall
    /\ sent = NoSend
    /\ tested = "untested"

\* Conn.doTransform; the iteration order matters only if the run forked
DoTransform ==
    /\ rw.state = "ready"
    /\ \E order \in IF doTransform(tree, DefaultOrder).run.forked
                    THEN Names ELSE {DefaultOrder} :
          rw' = Done(doTransform(tree, order))
    /\ UNCHANGED <<tree, whitelist, dynamicCache, tested, call, sent>>

RwNext == DoTransform

RwSpec == RwInit /\ [][RwNext]_vars

----------------------------------------------------------------------------
(* Properties of the rewriter *)

Succeeded == rw.state = "done" /\ rw.out.err = NoErr

\* the relations of the corpus that are tables of the database
BaseTables == {"t", "u"}

\* range variable r of a successful run has a tenant predicate on its name in
\* its scope; the predicate an UPDATE without WHERE gets names no table, and
\* counts for the range variables of that scope if they all go by one name
HasPredicate(run, r) ==
    \E p \in run.preds :
        /\ p.env = r.env
        /\ \/ p.name = r.key
           \/ /\ p.name = NoTable
              /\ \A o \in run.regs : o.env = r.env => o.key = r.key

\* C1: whenever the rewriter returns success, every base-table range
\* variable registered in any scope has a tenant predicate on its table or
\* alias name in that scope's WHERE clause or in a join ON clause of that
\* scope.
C1_EveryBaseTableHasPredicate ==
    Succeeded =>
        \A r \in rw.out.run.regs : r.rel \in BaseTables => HasPredicate(rw.out.run, r)

RECURSIVE ParamNumbers(_)
\* the K of every $K occurring anywhere in a parse tree
ParamNumbers(n) ==
    IF n.type = "ParamRef" THEN {n.Number}
    ELSE UNION {ParamNumbers(Children(n)[i]) : i \in DOMAIN Children(n)}
SetMax(S) == IF S = {} THEN 0 ELSE CHOOSE m \in S : \A k \in S : k <= m
MaxInputParam(t) == SetMax(ParamNumbers(t))
Occurrences(seq, tok) == Cardinality({i \in DOMAIN seq : seq[i] = tok})
\* no parameter beyond this one can be written by a run of the corpus
ParamLimit == MaxParam + 2

\* C2: in a successful rewrite that injects a tenant parameter, the injected
\* index N is 1 + the largest $K of the input tree, so N exceeds every input
\* $K, and every injection site wrote that same $N: the rewritten query
\* holds $N once per site.
C2_InjectedIndexIsOnePastMax ==
    (Succeeded /\ rw.out.run.sites > 0) =>
        LET N == 1 + MaxInputParam(tree)
        IN  /\ rw.out.run.tenantIDNum = N
            /\ \A k \in ParamNumbers(tree) : N > k
            /\ Occurrences(rw.out.Query, ParamTok(N)) = rw.out.run.sites

\* a statement with several injection sites, one in a nested scope, whose
\* largest parameter is the largest of the corpus
C2_Witness ==
    /\ Succeeded
    /\ rw.out.run.sites >= 2
    /\ rw.out.run.nenv >= 1
    /\ MaxInputParam(tree) = MaxParam
    /\ Occurrences(rw.out.Query, ParamTok(MaxParam + 1)) >= 2

\* C3: doTransform reports index 0 exactly when no tenant parameter was
\* emitted at any site, and otherwise 1 + the largest input parameter; when
\* the index N is positive, $N occurs in the rewritten query and no $M with
\* M > N does.
C3_ReportedIndex ==
    Succeeded =>
        LET N == rw.out.Num
        IN  /\ (N = 0) <=> (rw.out.run.sites = 0)
            /\ N # 0 => N = 1 + MaxInputParam(tree)
            /\ N > 0 => /\ ParamTok(N) \in Range(rw.out.Query)
                        /\ \A M \in (N + 1)..ParamLimit : ParamTok(M) \notin Range(rw.out.Query)

\* a statement with parameters but no table: nothing is injected, 0 is
\* reported though 1 + the largest parameter was reserved
C3_Witness ==
    /\ Succeeded
    /\ MaxInputParam(tree) > 0
    /\ rw.out.run.sites = 0
    /\ rw.out.Num = 0

Word(w, present) == IF present THEN {w} ELSE {}
\* the clauses a statement node carries, each by the keyword it is written
\* with
ClauseWords(n) ==
    CASE n.type = "SelectStmt" ->
           Word("WITH", n.WithClause.type # "Nil")
           \cup Word("DISTINCT", Len(n.DistinctClause) > 0)
           \cup Word("FROM", Len(n.FromClause) > 0)
           \cup Word("WHERE", n.WhereClause.type # "Nil")
           \cup Word("GROUP", Len(n.GroupClause) > 0)
           \cup Word("HAVING", n.HavingClause.type # "Nil")
           \cup Word("ORDER", Len(n.SortClause) > 0)
           \cup Word("LIMIT", n.LimitCount.type # "Nil")
           \cup Word("OFFSET", n.LimitOffset.type # "Nil")
           \cup Word("UNION", n.Op = "SETOP_UNION")
      [] n.type = "InsertStmt" ->
           Word("WITH", n.WithClause.type # "Nil")
           \cup Word("CONFLICT", n.OnConflictClause.type # "Nil")
           \cup Word("RETURNING", Len(n.ReturningList) > 0)
      [] n.type = "UpdateStmt" ->
           Word("WITH", n.WithClause.type # "Nil")
           \cup Word("FROM", Len(n.FromClause) > 0)
           \cup Word("WHERE", n.WhereClause.type # "Nil")
           \cup Word("RETURNING", Len(n.ReturningList) > 0)
      [] n.type = "DeleteStmt" ->
           Word("WITH", n.WithClause.type # "Nil")
           \cup Word("USING", Len(n.UsingClause) > 0)
           \cup Word("WHERE", n.WhereClause.type # "Nil")
           \cup Word("RETURNING", Len(n.ReturningList) > 0)
      [] OTHER -> {}

RECURSIVE InputClauses(_)
\* the clauses present anywhere in a parse tree
InputClauses(n) ==
    ClauseWords(n) \cup UNION {InputClauses(Children(n)[i]) : i \in DOMAIN Children(n)}

\* C11: whenever the rewriter succeeds, every clause present in the input
\* statement (WITH, FROM, WHERE, GROUP BY, HAVING, ORDER BY, LIMIT, OFFSET, a
\* set operation, USING, ON CONFLICT, RETURNING) is reproduced in the
\* rewritten statement: none is silently dropped.
C11_NoClauseDropped ==
    Succeeded => InputClauses(tree) \subseteq Range(rw.out.Query)

\* the statement of a tree that holds one
TheStmt(t) == t.Statements[1].Stmt
\* the run rewrote an INSERT that has no WITH clause in front
InsertDone ==
    /\ Succeeded
    /\ Len(tree.Statements) = 1
    /\ TheStmt(tree).type = "InsertStmt"
    /\ TheStmt(tree).WithClause.type = "Nil"

\* the first place after from where seq holds tok
FirstAfter(seq, tok, from) ==
    CHOOSE i \in (from + 1)..Len(seq) :
        seq[i] = tok /\ \A j \in (from + 1)..(i - 1) : seq[j] # tok
\* the entries of a comma-separated list of simple expressions
ListLen(list) == IF list = <<>> THEN 0 ELSE Occurrences(list, ",") + 1

\* where the emitted column list ends, and the emitted list
ColsClose(q) == FirstAfter(q, ")", 0)
EmittedCols(q) == SubSeq(q, FirstAfter(q, "(", 0) + 1, ColsClose(q) - 1)
\* where the emitted VALUES row, or the nested SELECT's target list, ends
ValuesEnd(q, sel) ==
    IF Len(sel.ValuesLists) = 1 THEN FirstAfter(q, ")", ColsClose(q))
    ELSE FirstAfter(q, "FROM", ColsClose(q))
\* the emitted row or target list: what follows "VALUES (" or "SELECT"
EmittedValues(q, sel) ==
    SubSeq(q, ColsClose(q) + (IF Len(sel.ValuesLists) = 1 THEN 3 ELSE 2), ValuesEnd(q, sel) - 1)
\* the values the input supplies
InputValues(sel) ==
    IF Len(sel.ValuesLists) = 1 THEN Len(sel.ValuesLists[1]) ELSE Len(sel.TargetList)
\* an INSERT the database accepts: no column list, or as many values as
\* columns
WellFormedInsert(stmt) ==
    Len(stmt.Cols) = 0 \/ Len(stmt.Cols) = InputValues(stmt.SelectStmt)

\* C13: for every accepted INSERT, the tenant column is the last entry of
\* the emitted column list, $N is the last entry of the emitted VALUES row
\* or nested SELECT target list, each list has grown by exactly one entry,
\* and $N stands at the position in the value list at which the tenant
\* column stands in the column list.
C13_TenantValueAligned ==
    (InsertDone /\ WellFormedInsert(TheStmt(tree))) =>
        /\ EmittedCols(rw.out.Query)[Len(EmittedCols(rw.out.Query))] = TenantIDCol
        /\ ListLen(EmittedCols(rw.out.Query)) = Len(TheStmt(tree).Cols) + 1
        /\ rw.out.Query[ValuesEnd(rw.out.Query, TheStmt(tree).SelectStmt) - 1]
             = ParamTok(rw.out.Num)
        /\ ListLen(EmittedValues(rw.out.Query, TheStmt(tree).SelectStmt))
             = InputValues(TheStmt(tree).SelectStmt) + 1
        /\ ListLen(EmittedValues(rw.out.Query, TheStmt(tree).SelectStmt))
             = ListLen(EmittedCols(rw.out.Query))

RECURSIVE CteNames(_)
\* the names the WITH clauses of a parse tree introduce
CteNames(n) ==
    (IF n.type = "CommonTableExpr" THEN {n.Ctename} ELSE {})
    \cup UNION {CteNames(Children(n)[i]) : i \in DOMAIN Children(n)}

RECURSIVE JoinsIn(_)
\* the joins of a FROM item, those in the operands of a join included
JoinsIn(n) ==
    IF n.type = "JoinExpr" THEN {n} \cup JoinsIn(n.Larg) \cup JoinsIn(n.Rarg) ELSE {}
\* the FROM list of the statement of a tree, whose scope is the first made
MainFrom(t) ==
    IF Len(t.Statements) = 1 /\ TheStmt(t).type = "SelectStmt"
    THEN TheStmt(t).FromClause ELSE <<>>
MainScope == 1
\* a reference to a table of the database: not to a name a WITH introduces
BaseRef(t, n) == n.type = "RangeVar" /\ n.Relname \notin CteNames(t)
\* the LEFT JOINs of the main scope whose left operand is a base table
LeftJoins(t) ==
    {j \in UNION {JoinsIn(MainFrom(t)[i]) : i \in DOMAIN MainFrom(t)} :
        j.Jointype = "JOIN_LEFT" /\ BaseRef(t, j.Larg)}
\* the run emitted a predicate on name in the clause site of scope env
Pred(run, env, name, site) == [env |-> env, name |-> name, site |-> site] \in run.preds

\* C16: in a successful rewrite, for every LEFT JOIN of the main scope
\* whose left operand is a base-table reference, the left table's tenant
\* predicate is in the scope's WHERE clause and in no ON clause, and the
\* predicate of a right operand that is a table met for the first time is
\* in the join's ON clause.
C16_LeftJoinPredicates ==
    Succeeded =>
        \A j \in LeftJoins(tree) :
            /\ Pred(rw.out.run, MainScope, RefName(j.Larg), "WHERE")
            /\ ~Pred(rw.out.run, MainScope, RefName(j.Larg), "ON")
            /\ (/\ BaseRef(tree, j.Rarg)
                /\ j.Quals.type # "Nil"
                /\ \E r \in rw.out.run.regs :
                      r.env = MainScope /\ r.key = RefName(j.Rarg) /\ r.fresh
                /\ Cardinality({r \in rw.out.run.regs :
                                   r.env = MainScope /\ r.key = RefName(j.Rarg)}) = 1)
               => Pred(rw.out.run, MainScope, RefName(j.Rarg), "ON")

\* C17: in a successful rewrite, no scope has a tenant predicate on a name
\* under which it registered a reference to a name a WITH clause of the
\* statement introduces, be the reference bare, under an alias, the left
\* operand of a LEFT JOIN, in the body of a later CTE or in a subselect.
C17_NoPredicateOnCTEName ==
    Succeeded =>
        \A g \in rw.out.run.regs :
            g.rel \in CteNames(tree) =>
                \A p \in rw.out.run.preds : ~(p.env = g.env /\ p.name = g.key)

\* C18: a range variable registered in a scope for the first time, under
\* its alias or else its table name, is tagged isCTE when the table name is
\* tagged isCTE in the scope and needsTenantID otherwise, whatever other
\* status the table name holds.
C18_FirstRegistrationTag ==
    rw.state = "done" =>
        \A g \in rw.out.run.regs :
            g.fresh => g.tag = IF g.relTag = isCTE THEN isCTE ELSE needsTenantID

\* the WHERE clause logged as w has the predicate of name k: qualified by
\* k, or the unqualified one of a scope whose only name is k
InWhere(run, w, k) ==
    \/ Pred(run, w.env, k, "WHERE")
    \/ Pred(run, w.env, NoTable, "WHERE") /\ DOMAIN w.before = {k}

\* C19: in a successful rewrite, for every WHERE clause emitted for a scope,
\* the fabricated one of an UPDATE without WHERE included, every name the
\* scope tagged needsTenantID or isLeftJoinTable just before has its
\* predicate in that WHERE clause and is tagged hasTenantID just after.
C19_WhereConvertsEveryName ==
    Succeeded =>
        \A w \in rw.out.run.wheres :
            \A k \in DOMAIN w.before :
                w.before[k] \in {needsTenantID, isLeftJoinTable} =>
                    InWhere(rw.out.run, w, k) /\ Get(w.after, k) = hasTenantID

\* the text of a RETURNING clause with the list of the input statement
ReturningTail(stmt) ==
    <<"RETURNING">>
    \o Invoke("commaSeparated", newTransformer(0, DefaultOrder),
              <<stmt.ReturningList, 1, "transformNode">>).w
EndsWith(seq, tail) ==
    Len(seq) >= Len(tail) /\ SubSeq(seq, Len(seq) - Len(tail) + 1, Len(seq)) = tail
UpdateReturning(t) ==
    /\ Len(t.Statements) = 1
    /\ TheStmt(t).type = "UpdateStmt"
    /\ Len(TheStmt(t).ReturningList) > 0

\* C20: the rewrite of an accepted UPDATE with a RETURNING list ends with
\* RETURNING and that list, whether or not the UPDATE has a WHERE clause.
C20_UpdateReturningKept ==
    (Succeeded /\ UpdateReturning(tree)) =>
        EndsWith(rw.out.Query, ReturningTail(TheStmt(tree)))

\* the number of parentheses open before token i of a text
Depth(text, i) ==
    Cardinality({j \in 1..(i - 1) : text[j] = "("})
    - Cardinality({j \in 1..(i - 1) : text[j] = ")"})
\* the tokens of a text that are inside no parentheses
TopLevel(text) == {i \in DOMAIN text : text[i] \notin {"(", ")"} /\ Depth(text, i) = 0}
\* the closing parenthesis that matches an opening one at token 1
Closing(text) ==
    CHOOSE i \in DOMAIN text :
        text[i] = ")" /\ Depth(text, i) = 1 /\ \A j \in 2..(i - 1) : Depth(text, j + 1) >= 1
\* an original condition that is an OR or a NOT expression
Disjunctive(where) == where.type = "BoolExpr" /\ where.Boolop # "AND_EXPR"
\* token i of the text starts the tenant predicate of name k
PredicateAt(c, k, i) ==
    LET at == IF c.qualified THEN i + 2 ELSE i
    IN  /\ at + 2 <= Len(c.text)
        /\ c.qualified => c.text[i] = k /\ c.text[i + 1] = "."
        /\ c.text[at] = TenantIDCol /\ c.text[at + 1] = "="
        /\ i \in TopLevel(c.text)
        /\ i = 1 \/ c.text[i - 1] = "AND"

Needing(w) ==
    {k \in DOMAIN w.before :
        \/ w.before[k] = needsTenantID
        \/ w.before[k] = isLeftJoinTable /\ Get(w.after, k) = hasTenantID}
\* the predicate of name k with parameter token tok
PredicateText(k, qualified, tok) ==
    (IF qualified THEN <<k, ".">> ELSE <<>>) \o <<TenantIDCol, "=", tok>>
RECURSIVE Conjunction(_, _, _)
\* the predicates of the sorted names joined by AND
Conjunction(names, qualified, tok) ==
    IF names = <<>> THEN <<>>
    ELSE PredicateText(Head(names), qualified, tok)
         \o (IF Tail(names) = <<>> THEN <<>>
             ELSE <<"AND">> \o Conjunction(Tail(names), qualified, tok))
\* what the clause w is to end with
PredicatesOf(w) ==
    Conjunction(SortNames(Needing(w)),
                Cardinality(DOMAIN w.before) > 1 \/ w.onConflict,
                w.text[Len(w.text)])
\* the token of the clause that stands before its last n tokens
Before(text, n) == text[Len(text) - n]

\* C22: in a successful rewrite, every WHERE clause written for a scope
\* with names tagged needsTenantID ends with one predicate per such name,
\* in the order of the names and joined by AND, following WHERE or AND;
\* the predicates are qualified by the name when the scope holds more than
\* one name or in onConflict mode, and unqualified otherwise; the clause
\* has no other tenant predicate outside parentheses.
C22_PredicatesSortedAndQualified ==
    Succeeded =>
        \A w \in rw.out.run.wheres :
            Needing(w) # {} =>
                /\ EndsWith(w.text, PredicatesOf(w))
                /\ Len(w.text) > Len(PredicatesOf(w))
                /\ Before(w.text, Len(PredicatesOf(w))) \in {"WHERE", "AND"}
                /\ Cardinality({i \in TopLevel(w.text) : w.text[i] = TenantIDCol})
                      = Cardinality(Needing(w))

\* text has the tokens of sub in a row
Contains(text, sub) ==
    \E i \in 0..(Len(text) - Len(sub)) : SubSeq(text, i + 1, i + Len(sub)) = sub
RECURSIVE TargetNames(_)
\* the names of the conflict targets, each followed by a comma
TargetNames(elems) ==
    IF elems = <<>> THEN <<>>
    ELSE <<safestr(Head(elems).Name), ",">> \o TargetNames(Tail(elems))
\* the conflict targets an ON CONFLICT clause names
ConflictTargets(oc) == IF oc.Infer.type = "Nil" THEN <<>> ELSE oc.Infer.IndexElems
\* an INSERT with an ON CONFLICT clause
InsertOnConflict(t) ==
    /\ Len(t.Statements) = 1
    /\ TheStmt(t).type = "InsertStmt"
    /\ TheStmt(t).OnConflictClause.type # "Nil"
    /\ TheStmt(t).OnConflictClause.Action # "ONCONFLICT_NONE"
\* the ON CONFLICT clause, up to DO, that the claim gives for targets
ConflictHead(targets) ==
    IF targets = <<>> THEN <<"ON", "CONFLICT", "DO">>
    ELSE <<"ON", "CONFLICT", "(">> \o TargetNames(targets) \o <<TenantIDCol, ")", "DO">>

\* C23: the rewrite of an accepted INSERT whose ON CONFLICT clause names
\* targets has the targets in order followed by the tenant column between
\* ON CONFLICT and DO; when the clause names no target, DO follows
\* ON CONFLICT with no target list between them.
C23_ConflictTargets ==
    (Succeeded /\ InsertOnConflict(tree)) =>
        Contains(rw.out.Query, ConflictHead(ConflictTargets(TheStmt(tree).OnConflictClause)))

\* the node is one of the constructs the rewriter does not implement
Listed(n) ==
    \/ n.type = "SelectStmt" /\ Len(n.DistinctClause) > 0
    \/ n.type = "InsertStmt" /\ n.SelectStmt.type = "SelectStmt"
                             /\ IsStar(n.SelectStmt.TargetList)
    \/ n.type = "InsertStmt" /\ n.SelectStmt.type = "SelectStmt"
                             /\ Len(n.SelectStmt.ValuesLists) >= 2
    \/ n.type = "JoinExpr" /\ n.Jointype \in {"JOIN_FULL", "JOIN_RIGHT"}
    \/ n.type = "CaseExpr" /\ n.Arg.type # "Nil"
    \/ n.type = "SubLink" /\ n.SubLinkType \notin {"EXISTS_SUBLINK", "ANY_SUBLINK"}
    \/ n.type = "SQLValueFunction" /\ n.Op # "SVFOP_CURRENT_TIMESTAMP"
RECURSIVE HasListed(_)
HasListed(n) == Listed(n) \/ \E i \in DOMAIN Children(n) : HasListed(Children(n)[i])
\* the statement is SELECT * at the top level and nothing else unusual
TopLevelStar(t) ==
    /\ Len(t.Statements) = 1
    /\ TheStmt(t).type = "SelectStmt"
    /\ IsStar(TheStmt(t).TargetList)

\* C24: a parse tree with one statement that holds one of the constructs
\* listed as unsupported is rewritten to an error and no query, and
\* SELECT * at the top level is rewritten without error.
C24_UnsupportedConstructsFail ==
    (rw.state = "done" /\ Len(tree.Statements) = 1) =>
        /\ HasListed(tree) => rw.out.err # NoErr /\ rw.out.Query = <<>>
        /\ (TopLevelStar(tree) /\ ~HasListed(tree)) => rw.out.err = NoErr

\* the names an environment tags isLeftJoinTable
LeftJoinTagged(env) == {k \in DOMAIN env : env[k] = isLeftJoinTable}

\* C25: whenever a rewrite writes the WHERE clause of a scope, the
\* environment of the scope holds at most one name tagged isLeftJoinTable,
\* and no name holds that tag once the clause is written.
C25_OneLeftJoinTable ==
    rw.state = "done" =>
        \A w \in rw.out.run.wheres :
            /\ Cardinality(LeftJoinTagged(w.before)) <= 1
            /\ rw.out.err = NoErr => LeftJoinTagged(w.after) = {}

\* how tightly a binary operator binds
Binding(op) == IF op \in {"*", "/"} THEN 2 ELSE 1
BinaryOp(n) == n.type = "A_Expr" /\ n.Kind = "AEXPR_OP"
\* the operand of the operator op, on its right side or its left, is
\* regrouped when written without parentheses
Regrouped(op, operand, right) ==
    /\ BinaryOp(operand)
    /\ \/ Binding(operand.Name[1].Str) < Binding(op)
       \/ right /\ Binding(operand.Name[1].Str) = Binding(op)
RECURSIVE NeedParens(_)
\* the operands in an expression that need parentheses to stay grouped
NeedParens(n) ==
    (IF BinaryOp(n)
     THEN {x \in {n.Lexpr} : Regrouped(n.Name[1].Str, x, FALSE)}
          \cup {x \in {n.Rexpr} : Regrouped(n.Name[1].Str, x, TRUE)}
     ELSE IF n.type = "TypeCast" THEN {x \in {n.Arg} : BinaryOp(x)}
     ELSE {})
    \cup UNION {NeedParens(Children(n)[i]) : i \in DOMAIN Children(n)}
\* the text of an expression
ExprText(n) == Invoke("transformNode", newTransformer(0, DefaultOrder), <<n>>).w

\* C28: in a successful rewrite, every binary-operator expression that is
\* an operand of a binary operator or of a cast, and that would be grouped
\* otherwise without parentheses, is written between parentheses.
C28_GroupingKept ==
    Succeeded =>
        \A x \in NeedParens(tree) :
            Contains(rw.out.Query, <<"(">> \o ExprText(x) \o <<")">>)

\* a node whose shape is not the one the rewriter expects: an element
\* without name in an ON CONFLICT target or an INSERT column list, a CTE
\* whose statement is neither SELECT nor INSERT
Unexpected(n) ==
    \/ n.type = "IndexElem" /\ n.Name = NULLPTR
    \/ n.type = "InsertStmt" /\ \E i \in DOMAIN n.Cols : n.Cols[i].Name = NULLPTR
    \/ n.type = "CommonTableExpr" /\ n.Ctequery.type \notin {"SelectStmt", "InsertStmt"}
RECURSIVE HasUnexpected(_)
HasUnexpected(n) ==
    Unexpected(n) \/ \E i \in DOMAIN Children(n) : HasUnexpected(Children(n)[i])

\* C29: the rewrite of a statement whose parse tree has a shape the
\* rewriter does not expect ends by returning an error: it neither
\* dereferences a nil pointer nor succeeds.
C29_ShapeErrorsReturned ==
    (rw.state = "done" /\ Len(tree.Statements) = 1 /\ HasUnexpected(tree)) =>
        rw.out.err = "error"

\* the names the WITH clause of the statement itself introduces
MainCteNames(t) ==
    IF Len(t.Statements) = 1 /\ TheStmt(t).WithClause.type = "WithClause"
    THEN {TheStmt(t).WithClause.Ctes[i].Ctename : i \in DOMAIN TheStmt(t).WithClause.Ctes}
    ELSE {}
RECURSIVE LocalNames(_)
\* the names a statement uses for its FROM-subselects and its own CTEs
LocalNames(n) ==
    (IF n.type = "RangeSubselect" /\ n.Alias # NULLPTR THEN {n.Alias}
     ELSE IF n.type = "CommonTableExpr" THEN {n.Ctename}
     ELSE {})
    \cup UNION {LocalNames(Children(n)[i]) : i \in DOMAIN Children(n)}
\* the names that are local to the bodies of the statement's CTEs
BodyNames(t) ==
    IF MainCteNames(t) = {} THEN {}
    ELSE UNION {LocalNames(TheStmt(t).WithClause.Ctes[i].Ctequery) :
                   i \in DOMAIN TheStmt(t).WithClause.Ctes}
\* the tables the statement's FROM list reads under a name that a CTE body
\* uses locally
Shadowed(t) ==
    {MainFrom(t)[i].Relname : i \in {j \in DOMAIN MainFrom(t) :
        /\ MainFrom(t)[j].type = "RangeVar"
        /\ MainFrom(t)[j].Alias = NULLPTR
        /\ MainFrom(t)[j].Relname \in BodyNames(t) \ MainCteNames(t)}}

\* C30: in a successful rewrite, a table in the statement's FROM list whose
\* name is used inside a CTE body for a FROM-subselect or a nested CTE is
\* registered as needsTenantID in the statement's scope and has its
\* predicate in the statement's WHERE clause.
C30_BodyNamesStayLocal ==
    Succeeded =>
        \A name \in Shadowed(tree) :
            /\ \E g \in rw.out.run.regs :
                  g.env = MainScope /\ g.key = name /\ g.tag = needsTenantID
            /\ Pred(rw.out.run, MainScope, name, "WHERE")

----------------------------------------------------------------------------
(* Properties of the driver, stated on the latest call *)

Called == call.op # "none"
\* the normalized form of the query passed
NQ == normalize(call.query)
Whitelisted == NQ \in DOMAIN whitelist
\* the context carried an escape query that normalizes to the query
Escaped == HasQuery(call.ctx) /\ normalize(call.ctx.query.value) = NQ
CacheUnchanged == dynamicCache = call.before.cache
\* QueryContext or ExecContext, which take the caller's context
Contextual == call.op \in {"QueryContext", "ExecContext"}
\* the pair the cache holds for q
CacheValue(cache, q) == cache.ll[IndexOf(cache.ll, q)].value

\* C4: a query that is not a whitelist key proceeds to the cache, parser and
\* rewriter if and only if the context carries an escape query whose
\* normalized form equals the normalized query; otherwise Conn.transform
\* fails with ErrUnknownQuery wrapping the normalized query, parses and
\* rewrites nothing and leaves the cache as it was, cached rewrite or not.
C4_EscapeGate ==
    (Called /\ ~Whitelisted) =>
        /\ call.looked <=> Escaped
        /\ ~Escaped =>
              /\ call.terr = "ErrUnknownQuery"
              /\ call.errQuery = NQ
              /\ ~call.parsed /\ ~call.rewrote
              /\ CacheUnchanged

\* a refused call whose context carries an escape for another query, while
\* the cache holds a rewrite of the query passed
C4_Witness ==
    /\ Called /\ ~Whitelisted /\ ~Escaped
    /\ HasQuery(call.ctx)
    /\ Cached(call.before.cache, NQ)
    /\ call.terr = "ErrUnknownQuery"

\* C5: for a query whose normalized form is a whitelist key, Conn.transform
\* returns exactly the whitelist's (Query, Num) for that key, whatever the
\* context carries, without consulting cache, parser or rewriter, and
\* leaves whitelist and cache unchanged.
C5_WhitelistHit ==
    (Called /\ Whitelisted) =>
        /\ call.terr = NoErr
        /\ call.Query = whitelist[NQ].Query
        /\ call.Num = whitelist[NQ].Num
        /\ ~call.looked /\ ~call.parsed /\ ~call.rewrote
        /\ CacheUnchanged
        /\ whitelist = call.before.whitelist

\* a whitelisted query written over several lines, passed with an escape
\* query and no tenant ID while the cache holds entries
C5_Witness ==
    /\ Called /\ Whitelisted
    /\ call.query # NQ
    /\ HasQuery(call.ctx) /\ ~HasTenant(call.ctx)
    /\ call.before.cache.ll # <<>>
    /\ call.Num > 0

C9_FailureLeavesNothing ==
    /\ (Called /\ call.parsed /\ call.terr # NoErr) =>
          /\ call.Query = <<>> /\ call.Num = 0
          /\ call.err = call.terr
          /\ CacheUnchanged
          /\ ~Cached(dynamicCache, NQ)
    /\ \A i \in DOMAIN dynamicCache.ll :
          LET p == Parse(dynamicCache.ll[i].key)
          IN  p.err = NoErr /\ \A o \in Names : doTransform(p.tree, o).err = NoErr

\* a rewrite that failed after the rewriter had emitted text, with entries
\* of other queries in the cache
C9_Witness ==
    /\ Called /\ call.rewrote /\ call.terr # NoErr
    /\ call.before.cache.ll # <<>>
    /\ \E o \in Names : doTransform(Parse(NQ).tree, o).run.w # <<>>

RECURSIVE Unwrap(_)
\* the statement inside any RawStmt wrappers
Unwrap(stmt) == IF stmt.type = "RawStmt" THEN Unwrap(stmt.Stmt) ELSE stmt
\* not exactly one statement, or one that is not INSERT, SELECT, UPDATE or
\* DELETE
Unsupported(t) ==
    \/ Len(t.Statements) # 1
    \/ Unwrap(t.Statements[1]).type
          \notin {"InsertStmt", "SelectStmt", "UpdateStmt", "DeleteStmt"}

\* C12: when the parse tree handed to the rewriter does not hold exactly one
\* statement, or holds one (inside its RawStmt) that is not an INSERT,
\* SELECT, UPDATE or DELETE, the rewrite fails: the driver call returns the
\* error with no rewritten query, forwards nothing and caches nothing.
C12_OnlyOneSupportedStatement ==
    (Called /\ call.parsed /\ Parse(NQ).err = NoErr /\ Unsupported(Parse(NQ).tree)) =>
        /\ call.rewrote
        /\ call.terr # NoErr /\ call.err = call.terr
        /\ call.Query = <<>> /\ call.Num = 0
        /\ sent = NoSend
        /\ CacheUnchanged /\ ~Cached(dynamicCache, NQ)

\* an escaped call with several statements in one string, made while the
\* cache holds rewrites of other queries
C12_Witness ==
    /\ Called /\ call.rewrote
    /\ Len(Parse(NQ).tree.Statements) > 1
    /\ call.before.cache.ll # <<>>
    /\ call.terr # NoErr

\* C14: Prepare of a query whose normalized form is no whitelist key fails
\* with ErrUnknownQuery (it transforms under context.Background(), which
\* carries no escape query): the cache is not consulted, even when it holds
\* the query's rewrite, nothing is parsed, and the underlying connection's
\* Prepare is not called.
C14_PrepareNeedsWhitelist ==
    (Called /\ call.op = "Prepare" /\ ~Whitelisted) =>
        /\ call.err = "ErrUnknownQuery"
        /\ call.errQuery = NQ
        /\ ~call.looked /\ ~call.parsed /\ ~call.rewrote
        /\ sent = NoSend
        /\ CacheUnchanged

\* Prepare of a query that is not whitelisted and whose rewrite is cached
C14_Witness ==
    /\ Called /\ call.op = "Prepare" /\ ~Whitelisted
    /\ Cached(call.before.cache, NQ)
    /\ call.err = "ErrUnknownQuery"
    /\ sent = NoSend

\* a cache entry stays, with its value, once stored
EntriesKept ==
    \A i \in DOMAIN dynamicCache.ll :
        /\ Cached(dynamicCache', dynamicCache.ll[i].key)
        /\ CacheValue(dynamicCache', dynamicCache.ll[i].key) = dynamicCache.ll[i].value

\* C10: after a successful escaped transform of a query that is not
\* whitelisted, the cache maps the normalized query to exactly the returned
\* (query, index); entries stay as stored, and a later escaped transform of
\* the query returns that pair from the cache without parsing or rewriting.
C10_CacheCoherence ==
    /\ [](/\ (Called /\ ~Whitelisted /\ call.terr = NoErr) =>
                /\ Cached(dynamicCache, NQ)
                /\ CacheValue(dynamicCache, NQ) = Transformed(call.Query, call.Num)
          /\ (Called /\ ~Whitelisted /\ Escaped /\ Cached(call.before.cache, NQ)) =>
                /\ call.terr = NoErr
                /\ ~call.parsed /\ ~call.rewrote
                /\ Transformed(call.Query, call.Num) = CacheValue(call.before.cache, NQ))
    /\ [][EntriesKept]_vars

\* a cache hit on a query written differently from its normalized form,
\* with more than one entry cached
C10_Witness ==
    /\ Called /\ ~Whitelisted /\ Escaped
    /\ Cached(call.before.cache, NQ)
    /\ call.query # NQ
    /\ Len(dynamicCache.ll) > 1
    /\ ~call.parsed
    /\ call.terr = NoErr

----------------------------------------------------------------------------
(* normalize run on its own: a text is normalized, and the result again *)

\* the characters normalize tells apart, "x" standing for any other, and
\* the single quote that opens and closes a string literal
Chars == {"SP", "TAB", "NL", "x", "'"}
RECURSIVE TextsOfLen(_)
TextsOfLen(n) ==
    IF n = 0 THEN {<<>>} ELSE {Append(t, ch) : t \in TextsOfLen(n - 1), ch \in Chars}
Texts == UNION {TextsOfLen(n) : n \in 0..MaxLen}

NormInit ==
    /\ call \in {[op |-> "normalize", query |-> q, once |-> NoValue, twice |-> NoValue] :
                    q \in Texts}
    /\ sent = NoSend
    /\ whitelist = ExampleWhitelist
    /\ dynamicCache = NilCache
    /\ tested = "untested"
    /\ tree = NoTree
    /\ rw = Idle

\* query = normalize(query)
NormalizeOnce ==
    /\ call.once.type = "Nil"
    /\ call' = [call EXCEPT !.once = Value(normalize(call.query))]
    /\ UNCHANGED <<sent, whitelist, dynamicCache, tested, tree, rw>>

\* the normalized text is passed in again
NormalizeAgain ==
    /\ call.once.type # "Nil" /\ call.twice.type = "Nil"
    /\ call' = [call EXCEPT !.twice = Value(normalize(call.once.value))]
    /\ UNCHANGED <<sent, whitelist, dynamicCache, tested, tree, rw>>

NormNext == NormalizeOnce \/ NormalizeAgain

NormSpec == NormInit /\ [][NormNext]_vars

\* C15: normalize is idempotent: normalizing a normalized text gives the
\* same text, normalize(normalize(q)) = normalize(q).
C15_NormalizeIdempotent ==
    call.twice.type # "Nil" => call.twice.value = call.once.value

RECURSIVE LiteralsFrom(_, _, _)
\* the contents of the string literals of a text, in order: cur is the
\* literal being read, when inside one
LiteralsFrom(q, inside, cur) ==
    IF q = <<>> THEN <<>>
    ELSE IF Head(q) = "'"
    THEN IF inside THEN <<cur>> \o LiteralsFrom(Tail(q), FALSE, <<>>)
         ELSE LiteralsFrom(Tail(q), TRUE, <<>>)
    ELSE LiteralsFrom(Tail(q), inside, IF inside THEN Append(cur, Head(q)) ELSE cur)
Literals(q) == LiteralsFrom(q, FALSE, <<>>)
\* every literal of the text is closed
Quoted(q) == Cardinality({i \in DOMAIN q : q[i] = "'"}) % 2 = 0

\* C26: normalize changes no string literal: the literals of normalize(q)
\* have the contents of the literals of q, for every text q whose literals
\* are closed.
C26_LiteralsKept ==
    (call.once.type # "Nil" /\ Quoted(call.query)) =>
        Literals(call.once.value) = Literals(call.query)

\* a text of several lines with blank lines or spaces at the ends, which
\* normalize changed and joined with a space
C15_Witness ==
    /\ call.twice.type # "Nil"
    /\ call.once.value # call.query
    /\ "NL" \in Range(call.query)
    /\ "SP" \in Range(call.once.value)
    /\ Len(call.once.value) < Len(call.query)

----------------------------------------------------------------------------
(* queryCache (transform.go) under concurrent callers: each goroutine     *)
(* makes one call of lookup or add on the Driver's cache                  *)

Goroutines == 1..MaxGoroutines
Unlocked == 0
Requests == [op : {"lookup", "add"}, q : {QSel, QBar}]
\* the steps of a call during which the caller holds qc.mu
Inside == {"locked", "allocated", "unlock"}

\* call.mu: the holder of qc.mu; call.pc: where each goroutine is in its
\* call; call.allocs: how often lru.New was called (history)
CacheInit ==
    /\ call \in {[op |-> "goroutines", mu |-> Unlocked, req |-> r,
                  pc |-> [g \in Goroutines |-> "start"],
                  ok |-> [g \in Goroutines |-> FALSE], allocs |-> 0] :
                    r \in [Goroutines -> Requests]}
    /\ dynamicCache = NilCache
    /\ sent = NoSend
    /\ whitelist = ExampleWhitelist
    /\ tested = "untested"
    /\ tree = NoTree
    /\ rw = Idle

\* a Lock that does not wait for the holder
Lock_NoWait(g) ==
    /\ call.pc[g] = "start"
    /\ call' = [call EXCEPT !.mu = g, !.pc[g] = "locked"]
    /\ UNCHANGED <<dynamicCache, sent, whitelist, tested, tree, rw>>

\* qc.mu.Lock()
Lock(g) ==
    /\ call.pc[g] = "start"
    /\ call.mu = Unlocked
    /\ call' = [call EXCEPT !.mu = g, !.pc[g] = "locked"]
    /\ UNCHANGED <<dynamicCache, sent, whitelist, tested, tree, rw>>

\* the body of queryCache.lookup
Lookup(g) ==
    /\ call.pc[g] = "locked"
    /\ call.req[g].op = "lookup"
    /\ dynamicCache' = lookup(dynamicCache, call.req[g].q).cache
    /\ call' = [call EXCEPT !.pc[g] = "unlock",
                            !.ok[g] = lookup(dynamicCache, call.req[g].q).ok]
    /\ UNCHANGED <<sent, whitelist, tested, tree, rw>>

\* if qc.cache == nil { qc.cache = lru.New(maxCachedQueries) }
New(g) ==
    /\ call.pc[g] = "locked"
    /\ call.req[g].op = "add"
    /\ dynamicCache' = IF dynamicCache.alloc THEN dynamicCache
                       ELSE [alloc |-> TRUE, ll |-> <<>>]
    /\ call' = [call EXCEPT !.pc[g] = "allocated",
                            !.allocs = IF dynamicCache.alloc THEN @ ELSE @ + 1]
    /\ UNCHANGED <<sent, whitelist, tested, tree, rw>>

\* qc.cache.Add(q, transformed)
Add(g) ==
    /\ call.pc[g] = "allocated"
    /\ dynamicCache.alloc
    /\ dynamicCache' = add(dynamicCache, call.req[g].q, Transformed(call.req[g].q, 0))
    /\ call' = [call EXCEPT !.pc[g] = "unlock", !.ok[g] = TRUE]
    /\ UNCHANGED <<sent, whitelist, tested, tree, rw>>

\* defer qc.mu.Unlock()
Unlock(g) ==
    /\ call.pc[g] = "unlock"
    /\ call' = [call EXCEPT !.mu = Unlocked, !.pc[g] = "done"]
    /\ UNCHANGED <<dynamicCache, sent, whitelist, tested, tree, rw>>

CacheStep(g) == Lock(g) \/ Lookup(g) \/ New(g) \/ Add(g) \/ Unlock(g)
CacheNext == \E g \in Goroutines : CacheStep(g)

CacheSpec == CacheInit /\ [][CacheNext]_vars
\* the scheduler runs every goroutine that can take a step
CacheLiveSpec == CacheSpec /\ \A g \in Goroutines : WF_vars(CacheStep(g))

\* at most one goroutine is inside lookup or add, and it holds the mutex
OneInside ==
    /\ Cardinality({g \in Goroutines : call.pc[g] \in Inside}) <= 1
    /\ \A g \in Goroutines : call.pc[g] \in Inside => call.mu = g
\* the cache is allocated at most once, and a goroutine that is past the
\* allocation in add finds the cache allocated
AllocatedOnce ==
    /\ call.allocs <= 1
    /\ dynamicCache.alloc <=> call.allocs = 1
    /\ \A g \in Goroutines : call.pc[g] = "allocated" => dynamicCache.alloc

\* C27: under every interleaving of the goroutines, at most one is inside
\* lookup or add at a time, the cache is allocated at most once and is
\* allocated whenever add stores into it, and every call completes.
C27_CacheSerialized ==
    /\ [](OneInside /\ AllocatedOnce)
    /\ \A g \in Goroutines : <>(call.pc[g] = "done")
\* one goroutine is between the allocation and the store of its add while
\* another, which also wants to add, waits for the mutex
C27_Witness ==
    \E g, h \in Goroutines :
        /\ g # h
        /\ call.pc[g] = "allocated" /\ call.allocs = 1
        /\ call.pc[h] = "start" /\ call.req[h].op = "add"

----------------------------------------------------------------------------
(* TransformTester (testutil.go) run on a whitelist *)

\* Unicode simple case folding, on the tokens of the queries at hand
Fold(tok) ==
    CASE tok = "SELECT" -> "select"
      [] tok = "FROM" -> "from"
      [] tok = "WHERE" -> "where"
      [] tok = "AND" -> "and"
      [] OTHER -> tok
\* strings.EqualFold
EqualFold(x, y) == Len(x) = Len(y) /\ \A i \in DOMAIN x : Fold(x[i]) = Fold(y[i])

\* one t.Run of TransformTester: pre is the key, post its value; TRUE if
\* neither t.Fatal nor t.Error was called
Subtest(pre, post, order) ==
    LET p == Parse(pre)
        stmt == p.tree.Statements[1]
        xformer == newTransformer(1 + findMaxParam(stmt), order)
        got == transformStmt(xformer, stmt)
    IN  /\ p.err = NoErr
        /\ Len(p.tree.Statements) = 1
        /\ ~Failed(got)
        /\ EqualFold(got.w, post.Query)

\* the test passes if every subtest does
TransformTesterOp(m, order) ==
    IF \A pre \in DOMAIN m : Subtest(pre, m[pre], order) THEN "pass" ELSE "fail"

\* whitelists a developer may write for these keys: the rewrite as the
\* rewriter spells it, the same in lower case, or another text, each with
\* any parameter index
TesterKeys == {QSel, QBar, QSalt, QScore, QDist, QBad}
Written(key) ==
    CASE key = QSel -> ExampleWhitelist[QSel].Query
      [] key = QBar -> <<"SELECT", "foo", "FROM", "bar", "WHERE", "tenant_id", "=", "$1">>
      [] key = QSalt -> TestWhitelist[QSalt].Query
      [] key = QScore -> <<"SELECT", "score", "(", "'proper-market'", ",", "$1", ")">>
      [] OTHER -> <<"SELECT", "a", "FROM", "foo">>
Entries(key) ==
    {Transformed(q, n) :
        q \in {Written(key), [i \in DOMAIN Written(key) |-> Fold(Written(key)[i])],
               <<"SELECT", "1">>},
        n \in 0..(MaxParam + 1)}
TesterWhitelists ==
    {(k :> e) : k \in TesterKeys, e \in UNION {Entries(x) : x \in TesterKeys}}
    \cup {(k1 :> e1) @@ (k2 :> e2) :
            k1 \in {QSel, QScore}, k2 \in {QBar, QSalt, QDist},
            e1 \in Entries(QSel) \cup Entries(QScore), e2 \in Entries(QBar) \cup Entries(QSalt)}

TesterInit ==
    /\ whitelist \in TesterWhitelists
    /\ tested = "untested"
    /\ dynamicCache = NilCache
    /\ call = NoCall
    /\ sent = NoSend
    /\ tree = NoTree
    /\ rw = Idle

TransformTester ==
    /\ \E order \in Names : tested' = TransformTesterOp(whitelist, order)
    /\ UNCHANGED <<whitelist, dynamicCache, call, sent, tree, rw>>

TesterNext == TransformTester

TesterSpec == TesterInit /\ [][TesterNext]_vars

\* C8: for every (input, expected) pair of a whitelist that passes
\* TransformTester, the rewriter run on input yields expected in both
\* components: the rewritten query, compared case-insensitively, and the
\* tenant parameter index Num.
C8_PassingWhitelistAgrees ==
    tested = "pass" =>
        \A pre \in DOMAIN whitelist :
            LET r == doTransform(Parse(pre).tree, DefaultOrder)
            IN  /\ r.err = NoErr
                /\ EqualFold(r.Query, whitelist[pre].Query)
                /\ r.Num = whitelist[pre].Num

====
